---- MODULE Spec2Model ----
(***************************************************************************)
(* Request Dispatcher of the Facebook Ads Manager plugin                   *)
(* (src/src/core/api.js): graphAPIRequest, graphQLRequest and              *)
(* batchGraphAPIRequests, the requests they hand to fetch and the way      *)
(* they settle on the response; and its Credential Extractor               *)
(* (getAccessToken of src/src/core/auth.js and of the revision kept in     *)
(* src/unnamed/part_003), which scans the inline script blocks of a page.  *)
(***************************************************************************)
EXTENDS Integers, Sequences, FiniteSets, TLC

\* number of Dispatcher calls issued in one behaviour
MaxCalls == 1
\* number of Dispatcher calls that can be in flight at the same time
MaxInFlight == 2
\* most calls of feature-module functions in one behaviour
MaxTasks == 1
\* most submissions of the credit card form in one behaviour
MaxSubmits == 1
\* most calls of initialize in one behaviour
MaxInits == 2
\* largest number of inline script blocks of a page
MaxScripts == 2
\* longest list of sub-requests / response entries of a batched call
MaxBatch == 2

(***************************************************************************)
(* JavaScript values.  A value is a record tagged by its type; an object   *)
(* is the sequence of its <<key, value>> members in insertion order.       *)
(***************************************************************************)
JsNull == [t |-> "null"]
JsUndefined == [t |-> "undefined"]
Str(s) == [t |-> "str", s |-> s]
Num(n) == [t |-> "num", n |-> n]
Bool(b) == [t |-> "bool", b |-> b]
Obj(members) == [t |-> "obj", o |-> members]
Arr(elements) == [t |-> "arr", a |-> elements]

\* ToBoolean(v) is false: the operand of `!v` and of `v || w`
Falsy_nullOnly(v) == v.t = "null"
Falsy(v) ==
  \/ v.t \in {"null", "undefined"}
  \/ v.t = "str" /\ v.s = ""
  \/ v.t = "num" /\ v.n = 0
  \/ v.t = "bool" /\ ~v.b

\* v || w
OrElse(v, w) == IF Falsy(v) THEN w ELSE v

\* the string a template literal `${v}` or URLSearchParams.append gives for v
ToStr(v) ==
  CASE v.t = "str" -> v.s
    [] v.t = "num" -> ToString(v.n)
    [] v.t = "bool" -> (IF v.b THEN "true" ELSE "false")
    [] v.t = "null" -> "null"
    [] v.t = "undefined" -> "undefined"
    [] v.t = "obj" -> "[object Object]"
    [] OTHER -> ""

HasKey(members, k) == \E i \in 1..Len(members) : members[i][1] = k
Lookup(members, k) == members[CHOOSE i \in 1..Len(members) : members[i][1] = k][2]

\* v.k for a value v that is neither null nor undefined
Get(v, k) == IF v.t = "obj" /\ HasKey(v.o, k) THEN Lookup(v.o, k) ELSE JsUndefined

\* v?.k
OptGet(v, k) == IF v.t \in {"null", "undefined"} THEN JsUndefined ELSE Get(v, k)

\* { ...obj, k: v } on an object of string members
SpreadSet_objectWins(members, k, v) ==
  IF HasKey(members, k) THEN members ELSE <<<<k, v>>>> \o members
SpreadSet(members, k, v) ==
  IF HasKey(members, k)
    THEN [i \in 1..Len(members) |-> IF members[i][1] = k THEN <<k, v>> ELSE members[i]]
    ELSE Append(members, <<k, v>>)

(***************************************************************************)
(* JSON.stringify and JSON.parse.                                          *)
(***************************************************************************)
RECURSIVE Escape(_)
Escape(s) ==
  IF Len(s) = 0 THEN ""
  ELSE LET c == SubSeq(s, 1, 1)
       IN  (IF c = "\"" THEN "\\\"" ELSE IF c = "\\" THEN "\\\\" ELSE c)
             \o Escape(SubSeq(s, 2, Len(s)))

Quote(s) == "\"" \o Escape(s) \o "\""

RECURSIVE JSONstringify(_)
RECURSIVE JoinMembers(_)
RECURSIVE JoinElements(_)
JSONstringify(v) ==
  CASE v.t = "str" -> Quote(v.s)
    [] v.t = "num" -> ToString(v.n)
    [] v.t = "bool" -> (IF v.b THEN "true" ELSE "false")
    [] v.t = "obj" ->
         "{" \o JoinMembers(SelectSeq(v.o, LAMBDA p : p[2].t # "undefined")) \o "}"
    [] v.t = "arr" -> "[" \o JoinElements(v.a) \o "]"
    [] OTHER -> "null"
JoinMembers(ps) ==
  IF Len(ps) = 0 THEN ""
  ELSE Quote(ps[1][1]) \o ":" \o JSONstringify(ps[1][2])
         \o (IF Len(ps) = 1 THEN "" ELSE "," \o JoinMembers(Tail(ps)))
JoinElements(es) ==
  IF Len(es) = 0 THEN ""
  ELSE JSONstringify(es[1])
         \o (IF Len(es) = 1 THEN "" ELSE "," \o JoinElements(Tail(es)))

(***************************************************************************)
(* URLSearchParams: a list of <<name, value>> string pairs and its         *)
(* application/x-www-form-urlencoded serialization.                        *)
(***************************************************************************)
Unreserved ==
  { "a","b","c","d","e","f","g","h","i","j","k","l","m","n","o","p","q","r",
    "s","t","u","v","w","x","y","z","A","B","C","D","E","F","G","H","I","J",
    "K","L","M","N","O","P","Q","R","S","T","U","V","W","X","Y","Z","0","1",
    "2","3","4","5","6","7","8","9","*","-",".","_" }

PercentEncode(c) ==
  CASE c \in Unreserved -> c
    [] c = " " -> "+"
    [] c = "," -> "%2C"
    [] c = "/" -> "%2F"
    [] c = ":" -> "%3A"
    [] c = "=" -> "%3D"
    [] c = "&" -> "%26"
    [] c = "?" -> "%3F"
    [] c = "\"" -> "%22"
    [] c = "{" -> "%7B"
    [] c = "}" -> "%7D"
    [] c = "[" -> "%5B"
    [] c = "]" -> "%5D"
    [] c = "<" -> "%3C"
    [] c = ">" -> "%3E"
    [] c = "\\" -> "%5C"
    [] OTHER -> "%3F"

RECURSIVE FormEncodeString(_)
FormEncodeString(s) ==
  IF Len(s) = 0 THEN ""
  ELSE PercentEncode(SubSeq(s, 1, 1)) \o FormEncodeString(SubSeq(s, 2, Len(s)))

RECURSIVE URLSearchParamsToString(_)
URLSearchParamsToString(ps) ==
  IF Len(ps) = 0 THEN ""
  ELSE FormEncodeString(ps[1][1]) \o "=" \o FormEncodeString(ps[1][2])
         \o (IF Len(ps) = 1 THEN "" ELSE "&" \o URLSearchParamsToString(Tail(ps)))

\* URLSearchParams.get(name): the value of the first pair called name
ParamGet(ps, name) == Lookup(ps, name)
\* the pair <<name, value>> is one of the fields
HasField(ps, name, value) == \E i \in 1..Len(ps) : ps[i] = <<name, value>>

(***************************************************************************)
(* src/src/core/auth.js                                                    *)
(***************************************************************************)
AlphaNum == Unreserved \ {"*", "-", ".", "_"}

\* /^EA[A-Za-z0-9]{20,}$/.test(token), false for a falsy token
validateToken(token) ==
  /\ ~Falsy(token)
  /\ token.t = "str"
  /\ Len(token.s) >= 22
  /\ SubSeq(token.s, 1, 2) = "EA"
  /\ \A i \in 3..Len(token.s) : SubSeq(token.s, i, i) \in AlphaNum

(***************************************************************************)
(* Constants of src/src/core/config.js and src/src/core/api.js             *)
(***************************************************************************)
FB_API_VERSION == "v18.0"
FB_GRAPH_API_BASE == "https://graph.facebook.com/" \o FB_API_VERSION
FB_GRAPHQL_API == "https://www.facebook.com/api/graphql/"
FormContentType == <<"Content-Type", "application/x-www-form-urlencoded">>
MissingTokenMessage == "Access token is required. Please pass it explicitly."

bodyMethods == {"POST", "PUT", "PATCH"}

(***************************************************************************)
(* Inputs of the Dispatcher operations.                                    *)
(***************************************************************************)
GoodToken == "EAAB0123456789abcdefghij"
OtherToken == "EAABzzzzzzzzzzzzzzzzzzzz"
Tokens == {JsNull, JsUndefined, Str(""), Str("EAshort"), Str(GoodToken)}
Endpoints == {"me"}
Methods == {"GET", "POST", "PUT", "PATCH", "DELETE"}
ParamObjects ==
  { << <<"fields", "id,name">> >>,
    << <<"access_token", OtherToken>>, <<"limit", "5">> >> }

DocIds == {"5197966936890203"}
FriendlyNames == {"useAdAccountALRAppealMutation"}
AppealVariables ==
  Obj(<< <<"input", Obj(<< <<"client_mutation_id", Str("1")>>,
                           <<"ad_account_id", Str("123")>> >>)>> >>)
CountVariables == Obj(<< <<"count", Num(2)>>, <<"note", JsUndefined>> >>)
\* what JSON.parse gives for the JSON text of CountVariables
CountOnly == Obj(<< <<"count", Num(2)>> >>)
VariablesObjects == {AppealVariables, CountVariables}
ExtraParamObjects ==
  { <<>>,
    << <<"dtsg", "AQdtsg">>, <<"userId", "1000">>, <<"doc_id", "999">> >> }

\* one sub-request of a batched call: method and params may be missing
SubRequests ==
  { [method |-> JsUndefined, endpoint |-> "me", params |-> JsUndefined],
    [method |-> Str("POST"), endpoint |-> "act_1",
     params |-> Obj(<< <<"fields", Str("id,name")>> >>)] }
SeqsUpTo(S, n) == UNION { [1..k -> S] : k \in 0..n }
RequestLists == SeqsUpTo(SubRequests, MaxBatch)

(***************************************************************************)
(* Responses of the platform.  A body is the text on the wire;             *)
(* response.json() parses it.                                              *)
(***************************************************************************)
MeBody == Obj(<< <<"id", Str("1")>>, <<"name", Str("Test")>> >>)
ErrorBody(message, code, type) ==
  Obj(<< <<"error", Obj(<< <<"message", message>>, <<"code", code>>,
                           <<"type", type>> >>)>> >>)
OAuthBody == ErrorBody(Str("Invalid OAuth"), Num(190), Str("OAuthException"))
ZeroCodeBody == ErrorBody(Str("Invalid OAuth"), Num(0), Str("OAuthException"))
BareErrorBody ==
  Obj(<< <<"error", Obj(<< <<"message", Str("")>>, <<"code", Num(0)>> >>)>> >>)
GraphQLData == Obj(<< <<"data", Obj(<< <<"ok", Bool(TRUE)>> >>)>> >>)
GraphQLErrors ==
  Obj(<< <<"errors", Arr(<< Obj(<< <<"message", Str("boom")>> >>) >>)>> >>)
GraphQLNoErrors == Obj(<< <<"data", JsNull>>, <<"errors", Arr(<<>>)>> >>)
NotJSON == "<html>"

BatchEntry(code, text) == Obj(<< <<"code", Num(code)>>, <<"body", Str(text)>> >>)
BatchEntries ==
  { BatchEntry(200, JSONstringify(MeBody)),
    BatchEntry(400, JSONstringify(OAuthBody)),
    BatchEntry(200, NotJSON) }
BatchArrays == { Arr(es) : es \in SeqsUpTo(BatchEntries, MaxBatch) }

\* an ad account as the basic and as the sensitive field list return it
BasicAccount ==
  Obj(<< <<"id", Str("act_111")>>, <<"name", Str("Shop")>>, <<"account_status", Num(1)>>,
         <<"currency", Str("USD")>> >>)
SensitiveAccount ==
  Obj(<< <<"id", Str("act_111")>>, <<"amount_spent", Str("10")>>, <<"balance", Str("0")>> >>)

\* the context object a caller hands to the credit card form
FullContext ==
  Obj(<< <<"accessToken", Str(GoodToken)>>, <<"accountId", Str("111")>>,
         <<"userId", Str("1000")>> >>)
NoUserContext == Obj(<< <<"accessToken", Str(GoodToken)>>, <<"accountId", Str("111")>> >>)
CardContexts == {Obj(<<>>), FullContext, NoUserContext}

\* every value whose JSON text can arrive
JSONUniverse ==
  CardContexts \cup
  {MeBody, BasicAccount, SensitiveAccount, OAuthBody, ZeroCodeBody, BareErrorBody, JsNull,
   GraphQLData, GraphQLErrors, GraphQLNoErrors, AppealVariables, CountOnly}
    \cup BatchArrays
ParseTable == { <<JSONstringify(v), v>> : v \in JSONUniverse }

\* JSON.parse(text): the value, or a SyntaxError
JSONparse(text) ==
  IF \E p \in ParseTable : p[1] = text
    THEN [ok |-> TRUE, value |-> (CHOOSE p \in ParseTable : p[1] = text)[2]]
    ELSE [ok |-> FALSE, value |-> JsUndefined]

HttpOK == [status |-> 200, statusText |-> "OK"]
HttpBadRequest == [status |-> 400, statusText |-> "Bad Request"]
Response(st, text) ==
  [kind |-> "response", status |-> st.status, statusText |-> st.statusText, body |-> text]
NetworkError == [kind |-> "networkError", status |-> 0, statusText |-> "", body |-> ""]
NoResponse == [kind |-> "none", status |-> 0, statusText |-> "", body |-> ""]

GraphResponses ==
  { Response(st, text) :
      st \in {HttpOK, HttpBadRequest},
      text \in {JSONstringify(MeBody), JSONstringify(OAuthBody),
                JSONstringify(ZeroCodeBody), JSONstringify(BareErrorBody),
                "null", NotJSON} }
    \cup {NetworkError}
GraphQLResponses ==
  { Response(HttpOK, text) :
      text \in {JSONstringify(GraphQLData), JSONstringify(GraphQLErrors),
                JSONstringify(GraphQLNoErrors), "null", NotJSON} }
    \cup { Response(HttpBadRequest, text) : text \in {JSONstringify(GraphQLErrors), NotJSON} }
    \cup {NetworkError}
BatchResponses ==
  { Response(HttpOK, text) :
      text \in {JSONstringify(v) : v \in BatchArrays}
                 \cup {JSONstringify(OAuthBody), NotJSON} }
    \cup { Response(HttpBadRequest, text) : text \in {JSONstringify(OAuthBody), NotJSON} }
    \cup {NetworkError}

\* response.ok
Ok(resp) == resp.status >= 200 /\ resp.status <= 299

(***************************************************************************)
(* State: the Dispatcher calls made so far, each with its arguments, its   *)
(* position, the response it got and the way its promise settled; and the  *)
(* requests handed to fetch, in order.                                     *)
(***************************************************************************)
VARIABLES calls, fetchLog, page, ext, tasks, ui
vars == <<calls, fetchLog, page, ext, tasks, ui>>

Pending == [kind |-> "pending", value |-> JsUndefined, name |-> "", message |-> ""]
Resolved(v) == [kind |-> "resolved", value |-> v, name |-> "", message |-> ""]
Rejected(name, message) ==
  [kind |-> "rejected", value |-> JsUndefined, name |-> name, message |-> message]

\* the call stops at `await fetch(...)`
Awaiting(op, args) ==
  [op |-> op, args |-> args, pc |-> "fetch", response |-> NoResponse, result |-> Pending]
\* the call throws before any await
Thrown(op, args, name, message) ==
  [op |-> op, args |-> args, pc |-> "done", response |-> NoResponse,
   result |-> Rejected(name, message)]
\* a call that settles with the result of a call that settled before it
Settled_shared(c, resp, result) ==
  [c EXCEPT !.pc = "done", !.response = resp,
            !.result = IF \E j \in 1..Len(calls) : calls[j].response # NoResponse
                         THEN calls[CHOOSE j \in 1..Len(calls) :
                                      calls[j].response # NoResponse].result
                         ELSE result]
Settled(c, resp, result) == [c EXCEPT !.pc = "done", !.response = resp, !.result = result]

\* fetch(url, options): one request goes out
fetch_twice(log, request) == Append(Append(log, request), request)
fetch(log, request) == Append(log, request)

FailedToFetch == Rejected("TypeError", "Failed to fetch")
JSONSyntaxError == Rejected("SyntaxError", "Unexpected token < in JSON at position 0")
NullProperty(k) ==
  Rejected("TypeError", "Cannot read properties of null (reading '" \o k \o "')")

\* the page the Extractor reads: the innerHTML of its script elements in
\* document order, document.cookie, window.location.search and what
\* document.querySelector('[name="fb_dtsg"]') finds
NoPage == [scripts |-> <<>>, cookie |-> "", search |-> "", dtsgElement |-> JsNull]
\* the Extractor before getAccessToken is called
Idle ==
  [rev |-> "none", pc |-> "idle", i |-> 0, token |-> Str(""), accountId |-> Str(""),
   dtsg |-> Str(""), userId |-> Str(""), selectedAccount |-> JsNull,
   isPageAuth |-> FALSE, result |-> JsUndefined]

\* const PluginState = {...} of src/src/main.js
PluginState ==
  Obj(<< <<"initialized", Bool(FALSE)>>, <<"accessToken", JsNull>>,
         <<"accountId", JsNull>>, <<"isPageAuth", Bool(FALSE)>> >>)
\* a keydown event, and the record of the last one the document dispatched:
\* the visibility of the plugin popup before and after its listeners ran
KeyboardEvent(key, ctrlKey, metaKey, shiftKey) ==
  [key |-> key, ctrlKey |-> ctrlKey, metaKey |-> metaKey, shiftKey |-> shiftKey]
NoKey ==
  [evt |-> KeyboardEvent("", FALSE, FALSE, FALSE), listeners |-> 0, before |-> "absent",
   after |-> "absent"]
\* the popup of utils/dom.js that holds the credit card form: dataset.context
\* of the form and the text of its error element
NoForm == [open |-> FALSE, context |-> "", error |-> ""]
\* the document once the script has been evaluated: no plugin popup, no
\* account data in it, no keydown listener, no form, nothing alerted; inits
\* counts the calls of initialize
Loaded ==
  [pc |-> "loaded", rev |-> "none", state |-> PluginState, popup |-> "absent",
   info |-> JsNull, listeners |-> 0, inits |-> 0, lastKey |-> NoKey, cardForm |-> NoForm,
   alert |-> ""]

Init ==
  /\ calls = <<>>
  /\ fetchLog = <<>>
  /\ page = NoPage
  /\ ext = Idle
  /\ tasks = <<>>
  /\ ui = Loaded

(***************************************************************************)
(* graphAPIRequest(endpoint, {method, params, accessToken})                *)
(***************************************************************************)
graphAPIRequest_allInQuery(id, endpoint, method, params, token) ==
  [call |-> id, method |-> method,
   url |-> [origin |-> FB_GRAPH_API_BASE \o "/" \o endpoint,
            search |-> SpreadSet(params, "access_token", token)],
   headers |-> <<>>, hasBody |-> FALSE, body |-> <<>>]
graphAPIRequest_fetch(id, endpoint, method, params, token) ==
  IF method \in bodyMethods
    THEN [call |-> id, method |-> method,
          url |-> [origin |-> FB_GRAPH_API_BASE \o "/" \o endpoint,
                   search |-> << <<"access_token", token>> >>],
          headers |-> <<FormContentType>>, hasBody |-> TRUE, body |-> params]
    ELSE [call |-> id, method |-> method,
          url |-> [origin |-> FB_GRAPH_API_BASE \o "/" \o endpoint,
                   search |-> SpreadSet(params, "access_token", token)],
          headers |-> <<>>, hasBody |-> FALSE, body |-> <<>>]

graphAPIRequest(endpoint, method, params, accessToken) ==
  /\ UNCHANGED <<page, ext>>
  /\ LET id == Len(calls) + 1
         args == [endpoint |-> endpoint, method |-> method, params |-> params,
                  accessToken |-> accessToken]
     IN  IF Falsy(accessToken)
           THEN /\ calls' = Append(calls, Thrown("graphAPIRequest", args, "Error",
                                                 MissingTokenMessage))
                /\ UNCHANGED fetchLog
           ELSE /\ calls' = Append(calls, Awaiting("graphAPIRequest", args))
                /\ fetchLog' = fetch(fetchLog,
                     graphAPIRequest_fetch(id, endpoint, method, params, ToStr(accessToken)))

\* the message thrown for a non-2xx response whose body parsed to errorData
graphAPIErrorMessage_raw(errorData) ==
  ToStr(OptGet(Get(errorData, "error"), "message")) \o " (Code: "
    \o ToStr(OptGet(Get(errorData, "error"), "code")) \o ", Type: "
    \o ToStr(OptGet(Get(errorData, "error"), "type")) \o ")"
graphAPIErrorMessage(errorData) ==
  LET error == Get(errorData, "error")
      errorMessage == OrElse(OptGet(error, "message"), Str("API request failed"))
      errorCode == OrElse(OptGet(error, "code"), Str("UNKNOWN"))
      errorType == OrElse(OptGet(error, "type"), Str("Unknown"))
  IN  ToStr(errorMessage) \o " (Code: " \o ToStr(errorCode) \o ", Type: "
        \o ToStr(errorType) \o ")"

\* the promise of graphAPIRequest once fetch has settled with resp
graphAPIRequest_result_enveloped(resp) ==
  IF resp.kind = "response" /\ Ok(resp) /\ JSONparse(resp.body).ok
    THEN Resolved(Obj(<< <<"success", Bool(TRUE)>>, <<"data", JSONparse(resp.body).value>> >>))
    ELSE Rejected("Error", "API request failed")
graphAPIRequest_result_swallow(resp) ==
  IF resp.kind = "response" /\ JSONparse(resp.body).ok
    THEN Resolved(JSONparse(resp.body).value)
    ELSE Resolved(JsNull)
graphAPIRequest_result(resp) ==
  IF resp.kind = "networkError" THEN FailedToFetch
  ELSE LET parsed == JSONparse(resp.body)
       IN  IF ~Ok(resp)
             THEN IF ~parsed.ok THEN JSONSyntaxError
                  ELSE IF parsed.value.t \in {"null", "undefined"} THEN NullProperty("error")
                  ELSE Rejected("Error", graphAPIErrorMessage(parsed.value))
             ELSE IF ~parsed.ok THEN JSONSyntaxError
                  ELSE Resolved(parsed.value)

graphAPIRequest_resume(i, resp) ==
  /\ calls[i].op = "graphAPIRequest"
  /\ calls[i].pc = "fetch"
  /\ UNCHANGED <<page, ext>>
  /\ calls' = [calls EXCEPT ![i] = Settled(@, resp, graphAPIRequest_result(resp))]
  /\ UNCHANGED fetchLog

(***************************************************************************)
(* graphQLRequest(docId, variables, friendlyName, accessToken, extraParams)*)
(***************************************************************************)
graphQLRequest_body_unserialized(docId, variables, friendlyName, token, extraParams) ==
  << <<"access_token", token>> >> \o extraParams
    \o << <<"doc_id", docId>>,
          <<"variables", ToStr(variables)>>,
          <<"fb_api_req_friendly_name", friendlyName>>,
          <<"fb_api_caller_class", "RelayModern">> >>
graphQLRequest_body_doubleEncoded(docId, variables, friendlyName, token, extraParams) ==
  << <<"access_token", token>> >> \o extraParams
    \o << <<"doc_id", docId>>,
          <<"variables", JSONstringify(Str(JSONstringify(variables)))>>,
          <<"fb_api_req_friendly_name", friendlyName>>,
          <<"fb_api_caller_class", "RelayModern">> >>
graphQLRequest_body(docId, variables, friendlyName, token, extraParams) ==
  << <<"access_token", token>> >> \o extraParams
    \o << <<"doc_id", docId>>,
          <<"variables", JSONstringify(variables)>>,
          <<"fb_api_req_friendly_name", friendlyName>>,
          <<"fb_api_caller_class", "RelayModern">> >>

graphQLRequest_fetch(id, docId, variables, friendlyName, token, extraParams) ==
  [call |-> id, method |-> "POST",
   url |-> [origin |-> FB_GRAPHQL_API, search |-> <<>>],
   headers |-> <<FormContentType>>, hasBody |-> TRUE,
   body |-> graphQLRequest_body(docId, variables, friendlyName, token, extraParams)]

graphQLRequest(docId, variables, friendlyName, accessToken, extraParams) ==
  /\ UNCHANGED <<page, ext>>
  /\ LET id == Len(calls) + 1
         args == [docId |-> docId, variables |-> variables, friendlyName |-> friendlyName,
                  accessToken |-> accessToken, extraParams |-> extraParams]
     IN  IF Falsy(accessToken)
           THEN /\ calls' = Append(calls, Thrown("graphQLRequest", args, "Error",
                                                 MissingTokenMessage))
                /\ UNCHANGED fetchLog
           ELSE /\ calls' = Append(calls, Awaiting("graphQLRequest", args))
                /\ fetchLog' = fetch(fetchLog,
                     graphQLRequest_fetch(id, docId, variables, friendlyName,
                                          ToStr(accessToken), extraParams))

\* new Error(v).message
ErrorMessage(v) == IF v.t = "undefined" THEN "" ELSE ToStr(v)

graphQLRequest_result(resp) ==
  IF resp.kind = "networkError" THEN FailedToFetch
  ELSE IF ~Ok(resp)
    THEN Rejected("Error", "HTTP error! status: " \o ToString(resp.status))
  ELSE LET parsed == JSONparse(resp.body)
           errors == Get(parsed.value, "errors")
       IN  IF ~parsed.ok THEN JSONSyntaxError
           ELSE IF parsed.value.t \in {"null", "undefined"} THEN NullProperty("errors")
           ELSE IF ~Falsy(errors) /\ errors.t = "arr" /\ Len(errors.a) > 0
             THEN Rejected("Error", ErrorMessage(Get(errors.a[1], "message")))
           ELSE Resolved(parsed.value)

graphQLRequest_resume(i, resp) ==
  /\ calls[i].op = "graphQLRequest"
  /\ calls[i].pc = "fetch"
  /\ UNCHANGED <<page, ext>>
  /\ calls' = [calls EXCEPT ![i] = Settled(@, resp, graphQLRequest_result(resp))]
  /\ UNCHANGED fetchLog

(***************************************************************************)
(* batchGraphAPIRequests(requests, accessToken)                            *)
(***************************************************************************)
\* new URLSearchParams(object)
ParamsOfObject(obj) == [i \in 1..Len(obj.o) |-> <<obj.o[i][1], ToStr(obj.o[i][2])>>]

batchItem(req) ==
  Obj(<< <<"method", OrElse(req.method, Str("GET"))>>,
         <<"relative_url",
           Str(req.endpoint \o (IF Falsy(req.params) THEN ""
                                ELSE "?" \o URLSearchParamsToString(ParamsOfObject(req.params))))>> >>)

batchGraphAPIRequests_fetch(id, requests, token) ==
  [call |-> id, method |-> "POST",
   url |-> [origin |-> FB_GRAPH_API_BASE,
            search |-> << <<"access_token", token>>,
                          <<"batch", JSONstringify(Arr([i \in 1..Len(requests) |->
                                                          batchItem(requests[i])]))>> >>],
   headers |-> <<>>, hasBody |-> FALSE, body |-> <<>>]

batchGraphAPIRequests(requests, accessToken) ==
  /\ UNCHANGED <<page, ext>>
  /\ LET id == Len(calls) + 1
         args == [requests |-> requests, accessToken |-> accessToken]
     IN  IF Falsy(accessToken)
           THEN /\ calls' = Append(calls, Thrown("batchGraphAPIRequests", args, "Error",
                                                 MissingTokenMessage))
                /\ UNCHANGED fetchLog
           ELSE /\ calls' = Append(calls, Awaiting("batchGraphAPIRequests", args))
                /\ fetchLog' = fetch(fetchLog,
                     batchGraphAPIRequests_fetch(id, requests, ToStr(accessToken)))

\* the callback of results.map, for an entry whose body parses
batchEntryResult(result) ==
  IF Get(result, "code") # Num(200)
    THEN Obj(<< <<"success", Bool(FALSE)>>,
                <<"error", JSONparse(ToStr(Get(result, "body"))).value>> >>)
    ELSE Obj(<< <<"success", Bool(TRUE)>>,
                <<"data", JSONparse(ToStr(Get(result, "body"))).value>> >>)

batchGraphAPIRequests_result(resp) ==
  IF resp.kind = "networkError" THEN FailedToFetch
  ELSE IF ~Ok(resp) THEN Rejected("Error", "Batch request failed")
  ELSE LET parsed == JSONparse(resp.body)
           results == parsed.value
       IN  IF ~parsed.ok THEN JSONSyntaxError
           ELSE IF results.t \in {"null", "undefined"} THEN NullProperty("map")
           ELSE IF results.t # "arr"
             THEN Rejected("TypeError", "results.map is not a function")
           ELSE IF \E i \in 1..Len(results.a) :
                     ~JSONparse(ToStr(Get(results.a[i], "body"))).ok
             THEN JSONSyntaxError
           ELSE Resolved(Arr([i \in 1..Len(results.a) |-> batchEntryResult(results.a[i])]))

batchGraphAPIRequests_resume(i, resp) ==
  /\ calls[i].op = "batchGraphAPIRequests"
  /\ calls[i].pc = "fetch"
  /\ UNCHANGED <<page, ext>>
  /\ calls' = [calls EXCEPT ![i] = Settled(@, resp, batchGraphAPIRequests_result(resp))]
  /\ UNCHANGED fetchLog

(***************************************************************************)
(* handleAPIError(error)                                                   *)
(***************************************************************************)
\* s.includes(sub)
Includes(s, sub) ==
  \E i \in 1..(Len(s) - Len(sub) + 1) : SubSeq(s, i, i + Len(sub) - 1) = sub

handleAPIError(error) ==
  LET message == IF error.message = "" THEN "Unknown error occurred" ELSE error.message
  IN  IF error.message # "" /\ Includes(error.message, "access token")
        THEN [success |-> FALSE,
              error |-> [code |-> "INVALID_TOKEN", message |-> "Invalid or expired access token"]]
      ELSE IF error.message # "" /\ Includes(error.message, "permission")
        THEN [success |-> FALSE,
              error |-> [code |-> "PERMISSION_DENIED", message |-> "Permission denied"]]
      ELSE IF error.message # "" /\ Includes(error.message, "rate limit")
        THEN [success |-> FALSE,
              error |-> [code |-> "RATE_LIMIT", message |-> "Rate limit exceeded"]]
      ELSE [success |-> FALSE, error |-> [code |-> "UNKNOWN_ERROR", message |-> message]]

(***************************************************************************)
(* The Dispatcher: calls are issued one after the other and their          *)
(* responses arrive in any order.                                          *)
(***************************************************************************)
Next ==
  \/ \E endpoint \in Endpoints, method \in Methods, params \in ParamObjects,
        accessToken \in Tokens :
       /\ Len(calls) < MaxCalls
       /\ graphAPIRequest(endpoint, method, params, accessToken)
       /\ UNCHANGED <<tasks, ui>>
  \/ \E i \in 1..Len(calls), resp \in GraphResponses :
       graphAPIRequest_resume(i, resp) /\ UNCHANGED <<tasks, ui>>
  \/ \E docId \in DocIds, variables \in VariablesObjects, friendlyName \in FriendlyNames,
        accessToken \in Tokens, extraParams \in ExtraParamObjects :
       /\ Len(calls) < MaxCalls
       /\ graphQLRequest(docId, variables, friendlyName, accessToken, extraParams)
       /\ UNCHANGED <<tasks, ui>>
  \/ \E i \in 1..Len(calls), resp \in GraphQLResponses :
       graphQLRequest_resume(i, resp) /\ UNCHANGED <<tasks, ui>>
  \/ \E requests \in RequestLists, accessToken \in Tokens :
       /\ Len(calls) < MaxCalls
       /\ batchGraphAPIRequests(requests, accessToken)
       /\ UNCHANGED <<tasks, ui>>
  \/ \E i \in 1..Len(calls), resp \in BatchResponses :
       batchGraphAPIRequests_resume(i, resp) /\ UNCHANGED <<tasks, ui>>

Spec == Init /\ [][Next]_vars

(***************************************************************************)
(* The Dispatcher with several calls in flight: a call is issued while     *)
(* others still await their response, and the responses arrive in any      *)
(* order.                                                                  *)
(***************************************************************************)
ConcurrentMethods == {"GET", "POST"}
ConcurrentParams == << <<"fields", "id,name">> >>
ConcurrentRequests ==
  <<[method |-> JsUndefined, endpoint |-> "me", params |-> JsUndefined]>>
ConcurrentGraphResponses ==
  {Response(HttpOK, JSONstringify(MeBody)),
   Response(HttpBadRequest, JSONstringify(OAuthBody)), NetworkError}
ConcurrentGraphQLResponses ==
  {Response(HttpOK, JSONstringify(GraphQLData)),
   Response(HttpOK, JSONstringify(GraphQLErrors)), NetworkError}
ConcurrentBatchResponses ==
  {Response(HttpOK, JSONstringify(Arr(<<BatchEntry(200, JSONstringify(MeBody))>>))),
   Response(HttpBadRequest, JSONstringify(OAuthBody))}

NextConcurrent ==
  \/ \E method \in ConcurrentMethods :
       /\ Len(calls) < MaxInFlight
       /\ graphAPIRequest("me", method, ConcurrentParams, Str(GoodToken))
       /\ UNCHANGED <<tasks, ui>>
  \/ \E i \in 1..Len(calls), resp \in ConcurrentGraphResponses :
       graphAPIRequest_resume(i, resp) /\ UNCHANGED <<tasks, ui>>
  \/ \E docId \in DocIds, friendlyName \in FriendlyNames :
       /\ Len(calls) < MaxInFlight
       /\ graphQLRequest(docId, AppealVariables, friendlyName, Str(GoodToken), <<>>)
       /\ UNCHANGED <<tasks, ui>>
  \/ \E i \in 1..Len(calls), resp \in ConcurrentGraphQLResponses :
       graphQLRequest_resume(i, resp) /\ UNCHANGED <<tasks, ui>>
  \/ /\ Len(calls) < MaxInFlight
     /\ batchGraphAPIRequests(ConcurrentRequests, Str(GoodToken))
     /\ UNCHANGED <<tasks, ui>>
  \/ \E i \in 1..Len(calls), resp \in ConcurrentBatchResponses :
       batchGraphAPIRequests_resume(i, resp) /\ UNCHANGED <<tasks, ui>>

SpecConcurrent == Init /\ [][NextConcurrent]_vars

(***************************************************************************)
(* Strings, as the regular expressions and string methods of the           *)
(* Extractor use them.                                                     *)
(***************************************************************************)
Min(S) == CHOOSE x \in S : \A y \in S : x <= y
Char(s, p) == SubSeq(s, p, p)
\* sub occurs in s at position p
StartsAt(s, sub, p) ==
  /\ p >= 1
  /\ p + Len(sub) - 1 <= Len(s)
  /\ SubSeq(s, p, p + Len(sub) - 1) = sub
\* the first position at or after from where sub occurs in s, 0 if none
IndexOf(s, sub, from) ==
  LET found == {p \in from..(Len(s) - Len(sub) + 1) : StartsAt(s, sub, p)}
  IN  IF found = {} THEN 0 ELSE Min(found)
\* the length of the longest run of characters of class that starts at p
RunLength(s, p, class) ==
  Min({q \in p..(Len(s) + 1) : q = Len(s) + 1 \/ Char(s, q) \notin class}) - p
\* the length of the longest run of characters outside stop that starts at p
RunUntil(s, p, stop) ==
  Min({q \in p..(Len(s) + 1) : q = Len(s) + 1 \/ Char(s, q) \in stop}) - p
\* s.replace(sub, with): the first occurrence only
StringReplace(s, sub, with) ==
  LET p == IndexOf(s, sub, 1)
  IN  IF p = 0 THEN s
      ELSE SubSeq(s, 1, p - 1) \o with \o SubSeq(s, p + Len(sub), Len(s))

UpperCase == "ABCDEFGHIJKLMNOPQRSTUVWXYZ"
LowerCase == "abcdefghijklmnopqrstuvwxyz"
ToLowerChar(c) ==
  IF \E k \in 1..26 : Char(UpperCase, k) = c
    THEN Char(LowerCase, CHOOSE k \in 1..26 : Char(UpperCase, k) = c)
    ELSE c
RECURSIVE ToLower(_)
ToLower(s) ==
  IF Len(s) = 0 THEN "" ELSE ToLowerChar(Char(s, 1)) \o ToLower(SubSeq(s, 2, Len(s)))

Digits == {"0", "1", "2", "3", "4", "5", "6", "7", "8", "9"}
\* \s
WhiteSpace == {" ", "\t", "\n", "\r", "\f"}
\* what . does not match
LineTerminators == {"\n", "\r"}
\* [A-Za-z0-9._-]
TokenChars == AlphaNum \cup {".", "_", "-"}

\* the result of RegExp.exec / String.match without the g flag: null, or
\* the whole match and its first capturing group
NoMatch == [found |-> FALSE, whole |-> "", group |-> ""]
Match(whole, group) == [found |-> TRUE, whole |-> whole, group |-> group]

(***************************************************************************)
(* src/unnamed/part_004 (utils/helpers.js)                                 *)
(***************************************************************************)
Specials == {",", "/", ":", "=", "&", "?", "\"", "{", "}", "[", "]", "<", ">", "\\"}
\* the character a %XX sequence stands for
PercentDecode(triple) ==
  IF \E c \in Specials : PercentEncode(c) = triple
    THEN CHOOSE c \in Specials : PercentEncode(c) = triple
    ELSE triple
RECURSIVE FormDecodeString(_)
FormDecodeString(s) ==
  IF Len(s) = 0 THEN ""
  ELSE IF Char(s, 1) = "+" THEN " " \o FormDecodeString(SubSeq(s, 2, Len(s)))
  ELSE IF Char(s, 1) = "%" /\ Len(s) >= 3
    THEN PercentDecode(SubSeq(s, 1, 3)) \o FormDecodeString(SubSeq(s, 4, Len(s)))
  ELSE Char(s, 1) \o FormDecodeString(SubSeq(s, 2, Len(s)))

\* one name=value piece of a query string
ParsePair(piece) ==
  LET eq == IndexOf(piece, "=", 1)
  IN  IF eq = 0 THEN <<FormDecodeString(piece), "">>
      ELSE <<FormDecodeString(SubSeq(piece, 1, eq - 1)),
             FormDecodeString(SubSeq(piece, eq + 1, Len(piece)))>>
RECURSIVE ParseQuery(_)
ParseQuery(query) ==
  IF Len(query) = 0 THEN <<>>
  ELSE LET amp == IndexOf(query, "&", 1)
           piece == IF amp = 0 THEN query ELSE SubSeq(query, 1, amp - 1)
           rest == IF amp = 0 THEN "" ELSE SubSeq(query, amp + 1, Len(query))
       IN  (IF Len(piece) = 0 THEN <<>> ELSE <<ParsePair(piece)>>) \o ParseQuery(rest)
\* new URLSearchParams(search)
URLSearchParams(search) ==
  ParseQuery(IF StartsAt(search, "?", 1) THEN SubSeq(search, 2, Len(search)) ELSE search)

\* getURLParameter(name): the value of the parameter, null when it is absent
getURLParameter(search, name) ==
  LET urlParams == URLSearchParams(search)
  IN  IF HasKey(urlParams, name) THEN Str(ParamGet(urlParams, name)) ELSE JsNull

\* getCookie(name): the value of the cookie when '; ' + document.cookie
\* splits in exactly two parts on '; name=', undefined otherwise
getCookie(cookie, name) ==
  LET value == "; " \o cookie
      sep == "; " \o name \o "="
      first == IndexOf(value, sep, 1)
      rest == SubSeq(value, first + Len(sep), Len(value))
  IN  IF first # 0 /\ IndexOf(value, sep, first + Len(sep)) = 0
        THEN Str(SubSeq(rest, 1, RunUntil(rest, 1, {";"})))
        ELSE JsUndefined

(***************************************************************************)
(* The regular expressions of getAccessToken.                              *)
(***************************************************************************)
\* /"(EA[A-Za-z0-9]{20,})"/ of src/src/core/auth.js
tokenRegex(html) ==
  LET run(p) == RunLength(html, p + 3, AlphaNum)
      starts == {p \in 1..Len(html) :
                   /\ StartsAt(html, "\"EA", p)
                   /\ run(p) >= 20
                   /\ StartsAt(html, "\"", p + 3 + run(p))}
  IN  IF starts = {} THEN NoMatch
      ELSE LET p == Min(starts)
           IN  Match(SubSeq(html, p, p + 3 + run(p)), SubSeq(html, p + 1, p + 2 + run(p)))

\* /"EA[A-Za-z0-9._-]{20,}[^"]*/ of src/unnamed/part_003
tokenRegex_part003(html) ==
  LET starts == {p \in 1..Len(html) :
                   /\ StartsAt(html, "\"EA", p)
                   /\ RunLength(html, p + 3, TokenChars) >= 20}
  IN  IF starts = {} THEN NoMatch
      ELSE LET p == Min(starts)
               whole == SubSeq(html, p, p + RunUntil(html, p + 1, {"\""}))
           IN  Match(whole, "")

\* /selected_account_id:"(.*?)"/i
elementIdRegEx(html) ==
  LET label == "selected_account_id:\""
      lower == ToLower(html)
      len(p) == RunUntil(html, p + Len(label), {"\""})
      starts == {p \in 1..Len(html) :
                   /\ StartsAt(lower, label, p)
                   /\ p + Len(label) + len(p) <= Len(html)
                   /\ \A q \in (p + Len(label))..(p + Len(label) + len(p) - 1) :
                        Char(html, q) \notin LineTerminators}
  IN  IF starts = {} THEN NoMatch
      ELSE LET p == Min(starts)
           IN  Match(SubSeq(html, p, p + Len(label) + len(p)),
                     SubSeq(html, p + Len(label), p + Len(label) + len(p) - 1))

\* /label\s*:\s*"(class+)"/ where class is the set chars, or its
\* complement when negated
LabeledValue(html, label, chars, negated) ==
  LET colon(p) == p + Len(label) + RunLength(html, p + Len(label), WhiteSpace)
      quote(p) == colon(p) + 1 + RunLength(html, colon(p) + 1, WhiteSpace)
      len(p) == IF negated THEN RunUntil(html, quote(p) + 1, chars)
                            ELSE RunLength(html, quote(p) + 1, chars)
      starts == {p \in 1..Len(html) :
                   /\ StartsAt(html, label, p)
                   /\ StartsAt(html, ":", colon(p))
                   /\ StartsAt(html, "\"", quote(p))
                   /\ len(p) >= 1
                   /\ StartsAt(html, "\"", quote(p) + 1 + len(p))}
  IN  IF starts = {} THEN NoMatch
      ELSE LET p == Min(starts)
           IN  Match(SubSeq(html, p, quote(p) + 1 + len(p)),
                     SubSeq(html, quote(p) + 1, quote(p) + len(p)))

\* html.match(/"token"\s*:\s*"([^"]+)"/)
dtsgMatch(html) == LabeledValue(html, "\"token\"", {"\""}, TRUE)
\* html.match(/"USER_ID"\s*:\s*"([0-9]+)"/)
userIdMatch(html) == LabeledValue(html, "\"USER_ID\"", Digits, FALSE)

(***************************************************************************)
(* Pages.                                                                  *)
(***************************************************************************)
UrlSafeToken == "EAAB-0123_4567.89abcdefghi"
TokenScript ==
  "{\"accessToken\":\"" \o GoodToken \o "\"};selected_account_id:\"111\""
OtherTokenScript ==
  "Selected_Account_Id:\"333\",t=\"" \o OtherToken \o "\""
UrlSafeTokenScript == "t=\"" \o UrlSafeToken \o "\";"
\* a token inside a JSON text that is itself a string literal
EscapedTokenScript ==
  "p(\"{\\\"accessToken\\\":\\\"" \o GoodToken \o "\\\"}\")"
DTSGScript ==
  "[\"DTSGInitialData\",[],{\"token\":\"AQscript\"}],{\"USER_ID\":\"2000\"}"
CurrentUserScript ==
  "[\"CurrentUserInitialData\",[],{\"USER_ID\":\"1000\"}],{\"token\":\"AQother\"}"
ScriptBlocks ==
  {TokenScript, OtherTokenScript, UrlSafeTokenScript, EscapedTokenScript,
   DTSGScript, CurrentUserScript}
Cookies == {"datr=abc", "datr=abc; c_user=3000; i_user=5"}
Searches == {"", "?act=222", "?act=", "?x=1&act=act%3D222"}
\* no element, a hidden input, an element that has no value property
Elements == {JsNull, Obj(<< <<"value", Str("AQdom")>> >>), Obj(<< >>)}
Pages ==
  [scripts : SeqsUpTo(ScriptBlocks, MaxScripts), cookie : Cookies,
   search : Searches, dtsgElement : Elements]

(***************************************************************************)
(* checkAuth and getAccessToken.  ext holds the locals of the running      *)
(* call: i is the number of script blocks scanned so far.                  *)
(***************************************************************************)
\* CONFIG.COOKIES.USER_ID
COOKIES_USER_ID == "i_user"
checkAuth(cookie) == getCookie(cookie, COOKIES_USER_ID) # JsUndefined

\* the state of a call that has read the URL parameter and is about to scan
Scanning(rev, p) ==
  [rev |-> rev, pc |-> "scan", i |-> 0, token |-> Str(""), accountId |-> Str(""),
   dtsg |-> Str(""), userId |-> Str(""),
   selectedAccount |-> getURLParameter(p.search, "act"),
   isPageAuth |-> checkAuth(p.cookie), result |-> JsUndefined]

\* the block the next iteration of the loop reads
Html == page.scripts[ext.i + 1]

\* src/src/core/auth.js, getAccessToken up to the loop
getAccessToken(p) ==
  /\ ext.pc \in {"idle", "done"}
  /\ page' = p
  /\ ext' = Scanning("auth.js", p)
  /\ UNCHANGED <<calls, fetchLog>>

\* if (!token) { tokenMatch = tokenRegex.exec(html); ... }
getAccessToken_token(html, token) ==
  IF Falsy(token)
    THEN LET tokenMatch == tokenRegex(html)
         IN  IF tokenMatch.found /\ tokenMatch.group # ""
               THEN Str(tokenMatch.group) ELSE token
    ELSE token

\* if (!selectedAccount && !accountId) { accountIdMatch = ... }
getAccessToken_scraped(html, selectedAccount, accountId) ==
  IF Falsy(selectedAccount) /\ Falsy(accountId)
    THEN LET accountIdMatch == elementIdRegEx(html)
         IN  IF accountIdMatch.found /\ accountIdMatch.group # ""
               THEN Str(accountIdMatch.group) ELSE accountId
    ELSE accountId

\* one iteration of the loop over the script elements
getAccessToken_scan ==
  /\ ext.rev = "auth.js"
  /\ ext.pc = "scan"
  /\ ext.i < Len(page.scripts)
  /\ ext' = [ext EXCEPT
       !.i = @ + 1,
       !.token = getAccessToken_token(Html, ext.token),
       !.accountId = getAccessToken_scraped(Html, ext.selectedAccount, ext.accountId)]
  /\ UNCHANGED <<calls, fetchLog, page>>

\* if (selectedAccount) accountId = selectedAccount.replace('act=', '')
getAccessToken_accountId_scraped(selectedAccount, accountId) == accountId
getAccessToken_accountId(selectedAccount, accountId) ==
  IF ~Falsy(selectedAccount)
    THEN Str(StringReplace(selectedAccount.s, "act=", ""))
    ELSE accountId

\* the end of the loop, the URL parameter and the returned object
getAccessToken_return ==
  /\ ext.rev = "auth.js"
  /\ ext.pc = "scan"
  /\ ext.i = Len(page.scripts)
  /\ LET accountId == getAccessToken_accountId(ext.selectedAccount, ext.accountId)
     IN  ext' = [ext EXCEPT
           !.pc = "done",
           !.accountId = accountId,
           !.result = Obj(<< <<"token", ext.token>>, <<"accountId", accountId>>,
                             <<"isPageAuth", Bool(ext.isPageAuth)>> >>)]
  /\ UNCHANGED <<calls, fetchLog, page>>

\* src/unnamed/part_003, getAccessToken up to the loop
getAccessToken_part003(p) ==
  /\ ext.pc \in {"idle", "done"}
  /\ page' = p
  /\ ext' = Scanning("part_003", p)
  /\ UNCHANGED <<calls, fetchLog>>

\* tokenMatch = html.match(tokenRegex); the candidate overwrites the token
getAccessToken_part003_token(html, token) ==
  LET tokenMatch == tokenRegex_part003(html)
      stripped == SubSeq(tokenMatch.whole, 2, Len(tokenMatch.whole))
      candidate == IF Len(stripped) > 0 /\ Char(stripped, Len(stripped)) = "\""
                     THEN SubSeq(stripped, 1, Len(stripped) - 1) ELSE stripped
  IN  IF tokenMatch.found /\ tokenMatch.whole # "" THEN Str(candidate) ELSE token

\* if (!selectedAccount) { accountIdMatch = ... }: the match overwrites
getAccessToken_part003_scraped(html, selectedAccount, accountId) ==
  IF Falsy(selectedAccount)
    THEN LET accountIdMatch == elementIdRegEx(html)
         IN  IF accountIdMatch.found /\ accountIdMatch.group # ""
               THEN Str(accountIdMatch.group) ELSE accountId
    ELSE accountId

\* if (dtsgMatch && html.includes('DTSGInitialData')) dtsg = dtsgMatch[1]
getAccessToken_part003_dtsg_unguarded(html, dtsg) ==
  IF dtsgMatch(html).found THEN Str(dtsgMatch(html).group) ELSE dtsg
getAccessToken_part003_dtsg(html, dtsg) ==
  IF dtsgMatch(html).found /\ Includes(html, "DTSGInitialData")
    THEN Str(dtsgMatch(html).group) ELSE dtsg

\* if (userIdMatch && html.includes('CurrentUserInitialData')) userId = userIdMatch[1]
getAccessToken_part003_userId(html, userId) ==
  IF userIdMatch(html).found /\ Includes(html, "CurrentUserInitialData")
    THEN Str(userIdMatch(html).group) ELSE userId

getAccessToken_part003_scan ==
  /\ ext.rev = "part_003"
  /\ ext.pc = "scan"
  /\ ext.i < Len(page.scripts)
  /\ ext' = [ext EXCEPT
       !.i = @ + 1,
       !.token = getAccessToken_part003_token(Html, ext.token),
       !.accountId = getAccessToken_part003_scraped(Html, ext.selectedAccount, ext.accountId),
       !.dtsg = getAccessToken_part003_dtsg(Html, ext.dtsg),
       !.userId = getAccessToken_part003_userId(Html, ext.userId)]
  /\ UNCHANGED <<calls, fetchLog, page>>

\* if (!dtsg) { dtsgElement = document.querySelector('[name="fb_dtsg"]'); ... }
getAccessToken_part003_dtsgFallback_always(dtsg, dtsgElement) ==
  IF ~Falsy(dtsgElement) THEN Get(dtsgElement, "value") ELSE dtsg
getAccessToken_part003_dtsgFallback(dtsg, dtsgElement) ==
  IF Falsy(dtsg) /\ ~Falsy(dtsgElement) THEN Get(dtsgElement, "value") ELSE dtsg

\* if (!userId) { cUser = getCookie('c_user'); if (cUser) userId = cUser }
getAccessToken_part003_userIdFallback(userId, cookie) ==
  IF Falsy(userId) /\ ~Falsy(getCookie(cookie, "c_user"))
    THEN getCookie(cookie, "c_user") ELSE userId

\* the end of the loop and the two fallbacks
getAccessToken_part003_fallbacks ==
  /\ ext.rev = "part_003"
  /\ ext.pc = "scan"
  /\ ext.i = Len(page.scripts)
  /\ ext' = [ext EXCEPT
       !.pc = "fallbacks",
       !.dtsg = getAccessToken_part003_dtsgFallback(ext.dtsg, page.dtsgElement),
       !.userId = getAccessToken_part003_userIdFallback(ext.userId, page.cookie)]
  /\ UNCHANGED <<calls, fetchLog, page>>

\* the URL parameter and the returned object
getAccessToken_part003_return ==
  /\ ext.rev = "part_003"
  /\ ext.pc = "fallbacks"
  /\ LET accountId == getAccessToken_accountId(ext.selectedAccount, ext.accountId)
     IN  ext' = [ext EXCEPT
           !.pc = "done",
           !.accountId = accountId,
           !.result = Obj(<< <<"token", ext.token>>, <<"accountId", accountId>>,
                             <<"isPageAuth", Bool(ext.isPageAuth)>>,
                             <<"dtsg", ext.dtsg>>, <<"userId", ext.userId>> >>)]
  /\ UNCHANGED <<calls, fetchLog, page>>

(***************************************************************************)
(* The Extractor: one call of getAccessToken, of either revision, on any   *)
(* page.                                                                   *)
(***************************************************************************)
NextExtract ==
  \/ \E p \in Pages : ext.pc = "idle" /\ getAccessToken(p) /\ UNCHANGED <<tasks, ui>>
  \/ getAccessToken_scan /\ UNCHANGED <<tasks, ui>>
  \/ getAccessToken_return /\ UNCHANGED <<tasks, ui>>
  \/ \E p \in Pages :
       ext.pc = "idle" /\ getAccessToken_part003(p) /\ UNCHANGED <<tasks, ui>>
  \/ getAccessToken_part003_scan /\ UNCHANGED <<tasks, ui>>
  \/ getAccessToken_part003_fallbacks /\ UNCHANGED <<tasks, ui>>
  \/ getAccessToken_part003_return /\ UNCHANGED <<tasks, ui>>

SpecExtract == Init /\ [][NextExtract]_vars

(***************************************************************************)
(* Feature modules (src/src/modules).  A task is one call of an async      *)
(* function of a module: call is the Dispatcher call it awaits, request    *)
(* the position in fetchLog of a request it sent with fetch itself.        *)
(***************************************************************************)
\* BASIC_AD_ACCOUNT_FIELDS.join(',') and SENSITIVE_AD_ACCOUNT_FIELDS.join(',')
BASIC_AD_ACCOUNT_FIELDS == "id,name,account_status,disable_reason,currency,timezone_name"
SENSITIVE_AD_ACCOUNT_FIELDS == "amount_spent,balance,funding_source_details"

\* { ...v } of a JSON value
ObjectSpread(v) == IF v.t = "obj" THEN v.o ELSE <<>>
\* { ...a, ...b } on members
RECURSIVE ObjectAssign(_, _)
ObjectAssign(a, b) ==
  IF Len(b) = 0 THEN a ELSE ObjectAssign(SpreadSet(a, b[1][1], b[1][2]), Tail(b))

UpperOf(c) ==
  IF \E k \in 1..26 : Char(LowerCase, k) = c
    THEN Char(UpperCase, CHOOSE k \in 1..26 : Char(LowerCase, k) = c)
    ELSE c
RECURSIVE ToUpperCase(_)
ToUpperCase(s) ==
  IF Len(s) = 0 THEN "" ELSE UpperOf(Char(s, 1)) \o ToUpperCase(SubSeq(s, 2, Len(s)))

Task(op, args, pc, call, request) ==
  [op |-> op, args |-> args, pc |-> pc, call |-> call, request |-> request,
   basic |-> 0, awaits |-> 0, data |-> <<>>, shown |-> "", result |-> Pending]
\* the object of a catch block: { success: false, message: error.message, error }
Failure(name, message) ==
  Obj(<< <<"success", Bool(FALSE)>>, <<"message", Str(message)>>,
         <<"error", Obj(<< <<"name", Str(name)>>, <<"message", Str(message)>> >>)>> >>)
\* the settled promise of Dispatcher call i
Outcome(i) == calls[i].result
Finished(t, result) == [tasks EXCEPT ![t].pc = "done", ![t].result = Resolved(result)]

\* getAdAccountDetails(accountId, accessToken) up to its first await
getAdAccountDetails(accountId, accessToken) ==
  /\ tasks' = Append(tasks,
       [Task("getAdAccountDetails", [accountId |-> accountId, accessToken |-> accessToken],
             "basic", Len(calls) + 1, 0) EXCEPT !.basic = Len(calls) + 1])
  /\ graphAPIRequest("act_" \o accountId, "GET",
                     << <<"fields", BASIC_AD_ACCOUNT_FIELDS>> >>, accessToken)
  /\ UNCHANGED ui

\* the basic fields have arrived or the request has failed
getAdAccountDetails_basic(t) ==
  /\ tasks[t].op = "getAdAccountDetails"
  /\ tasks[t].pc = "basic"
  /\ calls[tasks[t].call].pc = "done"
  /\ IF Outcome(tasks[t].call).kind = "rejected"
       THEN /\ tasks' = Finished(t, Failure(Outcome(tasks[t].call).name,
                                            Outcome(tasks[t].call).message))
            /\ UNCHANGED <<calls, fetchLog, page, ext>>
       ELSE /\ tasks' = [tasks EXCEPT ![t].pc = "sensitive",
                                      ![t].call = Len(calls) + 1,
                                      ![t].data = ObjectSpread(Outcome(tasks[t].call).value)]
            /\ graphAPIRequest("act_" \o tasks[t].args.accountId, "GET",
                               << <<"fields", SENSITIVE_AD_ACCOUNT_FIELDS>> >>,
                               tasks[t].args.accessToken)
  /\ UNCHANGED ui

\* try { data = { ...data, ...sensitiveData } } catch { } return { success: true, data }
getAdAccountDetails_result_strict(data, sensitive) ==
  IF sensitive.kind = "resolved"
    THEN Obj(<< <<"success", Bool(TRUE)>>,
                <<"data", Obj(ObjectAssign(data, ObjectSpread(sensitive.value)))>> >>)
    ELSE Failure(sensitive.name, sensitive.message)
getAdAccountDetails_result(data, sensitive) ==
  IF sensitive.kind = "resolved"
    THEN Obj(<< <<"success", Bool(TRUE)>>,
                <<"data", Obj(ObjectAssign(data, ObjectSpread(sensitive.value)))>> >>)
    ELSE Obj(<< <<"success", Bool(TRUE)>>, <<"data", Obj(data)>> >>)

\* the sensitive fields have arrived or the request has failed
getAdAccountDetails_sensitive(t) ==
  /\ tasks[t].op = "getAdAccountDetails"
  /\ tasks[t].pc = "sensitive"
  /\ calls[tasks[t].call].pc = "done"
  /\ tasks' = Finished(t, getAdAccountDetails_result(tasks[t].data, Outcome(tasks[t].call)))
  /\ UNCHANGED <<calls, fetchLog, page, ext, ui>>

\* appealAdAccount(accountId, accessToken, context) up to its await
appealAdAccount(accountId, accessToken, context) ==
  /\ tasks' = Append(tasks,
       Task("appealAdAccount",
            [accountId |-> accountId, accessToken |-> accessToken, context |-> context],
            "graphql", Len(calls) + 1, 0))
  /\ graphQLRequest("5197966936890203",
       Obj(<< <<"input", Obj(<<
         <<"client_mutation_id", Str("1")>>,
         <<"actor_id", IF HasKey(context, "userId") /\ Lookup(context, "userId") # ""
                         THEN Str(Lookup(context, "userId")) ELSE Str(accountId)>>,
         <<"ad_account_id", Str(accountId)>>,
         <<"ids_issue_ent_id", Str("1")>>,
         <<"appeal_comment", Str("I'm not sure which policy was violated.")>>,
         <<"callsite", Str("ACCOUNT_QUALITY")>> >>)>> >>),
       "useAdAccountALRAppealMutation", accessToken, context)
  /\ UNCHANGED ui

appealAdAccount_resume(t) ==
  /\ tasks[t].op = "appealAdAccount"
  /\ tasks[t].pc = "graphql"
  /\ calls[tasks[t].call].pc = "done"
  /\ tasks' = Finished(t,
       IF Outcome(tasks[t].call).kind = "rejected"
         THEN Failure(Outcome(tasks[t].call).name, Outcome(tasks[t].call).message)
         ELSE Obj(<< <<"success", Bool(TRUE)>>,
                     <<"message", Str("Ad account appeal submitted successfully")>>,
                     <<"data", Outcome(tasks[t].call).value>> >>))
  /\ UNCHANGED <<calls, fetchLog, page, ext, ui>>

\* a request a module hands to fetch itself
DirectRequest(url, body) ==
  [call |-> 0, method |-> "POST", url |-> [origin |-> url, search |-> <<>>],
   headers |-> <<>>, hasBody |-> TRUE, body |-> body]

\* updateAccountCurrency(accountId, currency, accessToken) of settings.js
updateAccountCurrency(accountId, currency, accessToken) ==
  /\ tasks' = Append(tasks,
       Task("updateAccountCurrency",
            [accountId |-> accountId, currency |-> currency, accessToken |-> accessToken],
            "fetch", 0, Len(fetchLog) + 1))
  /\ fetchLog' = fetch(fetchLog,
       DirectRequest("https://graph.facebook.com/" \o FB_API_VERSION \o "/act_" \o accountId,
                     << <<"currency", ToUpperCase(currency)>>,
                        <<"access_token", ToStr(accessToken)>> >>))
  /\ UNCHANGED <<calls, page, ext, ui>>

\* data = await response.json(); if (data.error) throw ...; the catch block
updateAccountCurrency_result(currency, resp) ==
  LET parsed == JSONparse(resp.body)
      error == Get(parsed.value, "error")
  IN  IF resp.kind = "networkError" THEN Failure("TypeError", "Failed to fetch")
      ELSE IF ~parsed.ok THEN Failure("SyntaxError", JSONSyntaxError.message)
      ELSE IF parsed.value.t \in {"null", "undefined"}
        THEN Failure("TypeError", NullProperty("error").message)
      ELSE IF ~Falsy(error)
        THEN Failure("Error", ToStr(OrElse(Get(error, "error_user_msg"), Get(error, "message"))))
      ELSE Obj(<< <<"success", Bool(TRUE)>>,
                  <<"message", Str("Currency updated to " \o currency \o " successfully")>>,
                  <<"data", parsed.value>> >>)

updateAccountCurrency_resume(t, resp) ==
  /\ tasks[t].op = "updateAccountCurrency"
  /\ tasks[t].pc = "fetch"
  /\ tasks' = Finished(t, updateAccountCurrency_result(tasks[t].args.currency, resp))
  /\ UNCHANGED <<calls, fetchLog, page, ext, ui>>

\* addBusinessManager(bmName, accessToken) of businessManager.js, which
\* posts with postFormData of utils/http.js
addBusinessManager(bmName, accessToken) ==
  /\ tasks' = Append(tasks,
       Task("addBusinessManager", [bmName |-> bmName, accessToken |-> accessToken],
            "fetch", 0, Len(fetchLog) + 1))
  /\ fetchLog' = fetch(fetchLog,
       [DirectRequest(FB_GRAPHQL_API,
          << <<"access_token", ToStr(accessToken)>>,
             <<"fb_api_req_friendly_name", "BusinessManagerCreateMutation">>,
             <<"variables", JSONstringify(Obj(<< <<"input", Obj(<<
                 <<"name", Str(bmName)>>, <<"vertical", Str("OTHER")>>,
                 <<"timezone_id", Str("1")>>, <<"client_mutation_id", Str("1")>> >>)>> >>))>>,
             <<"doc_id", "4787981637941333">>,
             <<"fb_api_caller_class", "RelayModern">> >>)
        EXCEPT !.headers = <<FormContentType>>])
  /\ UNCHANGED <<calls, page, ext, ui>>

\* postFormData: throws on a status that is not ok, else response.json()
addBusinessManager_result(resp) ==
  LET parsed == JSONparse(resp.body)
  IN  IF resp.kind = "networkError" THEN Failure("TypeError", "Failed to fetch")
      ELSE IF ~Ok(resp)
        THEN Failure("Error", "HTTP error! status: " \o ToString(resp.status))
      ELSE IF ~parsed.ok THEN Failure("SyntaxError", JSONSyntaxError.message)
      ELSE Obj(<< <<"success", Bool(TRUE)>>,
                  <<"message", Str("Business Manager created successfully")>>,
                  <<"data", parsed.value>> >>)

addBusinessManager_resume(t, resp) ==
  /\ tasks[t].op = "addBusinessManager"
  /\ tasks[t].pc = "fetch"
  /\ tasks' = Finished(t, addBusinessManager_result(resp))
  /\ UNCHANGED <<calls, fetchLog, page, ext, ui>>

(***************************************************************************)
(* The feature modules as the entry points of window.FBACCPlugin: any      *)
(* operation is called, and the responses arrive in any order.             *)
(***************************************************************************)
AccountIds == {"111", "222"}
Currencies == {"usd", "Eur"}
ModuleTokens == {Str(GoodToken), Str("")}
Contexts == {<<>>, << <<"dtsg", "AQdtsg">>, <<"userId", "1000">> >>}
AccountResponses ==
  {Response(HttpOK, JSONstringify(BasicAccount)),
   Response(HttpOK, JSONstringify(SensitiveAccount)),
   Response(HttpOK, "null"),
   Response(HttpBadRequest, JSONstringify(OAuthBody)),
   NetworkError}
SettingsResponses ==
  {Response(HttpOK, JSONstringify(BasicAccount)),
   Response(HttpBadRequest, JSONstringify(OAuthBody)),
   Response(HttpOK, "null"), Response(HttpOK, NotJSON), NetworkError}

NextModules ==
  \/ \E accountId \in AccountIds, accessToken \in ModuleTokens :
       Len(tasks) < MaxTasks /\ getAdAccountDetails(accountId, accessToken)
  \/ \E t \in 1..Len(tasks) : getAdAccountDetails_basic(t)
  \/ \E t \in 1..Len(tasks) : getAdAccountDetails_sensitive(t)
  \/ \E accountId \in AccountIds, accessToken \in ModuleTokens, context \in Contexts :
       Len(tasks) < MaxTasks /\ appealAdAccount(accountId, accessToken, context)
  \/ \E t \in 1..Len(tasks) : appealAdAccount_resume(t)
  \/ \E accountId \in AccountIds, currency \in Currencies, accessToken \in ModuleTokens :
       Len(tasks) < MaxTasks /\ updateAccountCurrency(accountId, currency, accessToken)
  \/ \E t \in 1..Len(tasks), resp \in SettingsResponses : updateAccountCurrency_resume(t, resp)
  \/ \E accessToken \in ModuleTokens :
       Len(tasks) < MaxTasks /\ addBusinessManager("BM", accessToken)
  \/ \E t \in 1..Len(tasks), resp \in SettingsResponses : addBusinessManager_resume(t, resp)
  \/ \E i \in 1..Len(calls), resp \in AccountResponses :
       graphAPIRequest_resume(i, resp) /\ UNCHANGED <<tasks, ui>>
  \/ \E i \in 1..Len(calls), resp \in ConcurrentGraphQLResponses :
       graphQLRequest_resume(i, resp) /\ UNCHANGED <<tasks, ui>>

SpecModules == Init /\ [][NextModules]_vars

(***************************************************************************)
(* The credit card form (src/src/modules/creditCard.js).                   *)
(***************************************************************************)
\* s.replace(/\s/g, '')
RECURSIVE RemoveWhiteSpace(_)
RemoveWhiteSpace(s) ==
  IF Len(s) = 0 THEN ""
  ELSE (IF Char(s, 1) \in WhiteSpace THEN "" ELSE Char(s, 1))
         \o RemoveWhiteSpace(SubSeq(s, 2, Len(s)))
\* /^\d{lo,hi}$/.test(s)
DigitsOnly(s, lo, hi) == Len(s) \in lo..hi /\ \A k \in 1..Len(s) : Char(s, k) \in Digits
\* parseInt(s) for a string of digits, the only strings it is applied to
RECURSIVE parseInt(_)
parseInt(s) ==
  IF Len(s) = 0 THEN 0
  ELSE 10 * parseInt(SubSeq(s, 1, Len(s) - 1))
         + (CHOOSE n \in 0..9 : ToString(n) = Char(s, Len(s)))
\* Object.entries(v) as URLSearchParams.append receives them
Entries(v) == [k \in 1..Len(ObjectSpread(v)) |-> <<v.o[k][1], ToStr(v.o[k][2])>>]

\* showAddCreditCardForm(context): showPopup replaces any earlier popup
showAddCreditCardForm(context) ==
  /\ ui' = [ui EXCEPT !.cardForm =
              [open |-> TRUE, context |-> JSONstringify(context), error |-> ""]]
  /\ UNCHANGED <<calls, fetchLog, page, ext, tasks>>

\* hidePopup of utils/dom.js, the handler of the Cancel button
hidePopup ==
  /\ ui.cardForm.open
  /\ ui' = [ui EXCEPT !.cardForm = NoForm]
  /\ UNCHANGED <<calls, fetchLog, page, ext, tasks>>

\* showError(message): the error element of the form, or an alert
showError(message) ==
  IF ui.cardForm.open THEN [ui EXCEPT !.cardForm.error = message]
  ELSE [ui EXCEPT !.alert = message]

\* if (!context.accessToken) { ... context = JSON.parse(form.dataset.context) ... }
processCreditCardForm_context(context) ==
  IF Falsy(Get(context, "accessToken")) /\ ui.cardForm.open /\ ui.cardForm.context # ""
       /\ JSONparse(ui.cardForm.context).ok
    THEN JSONparse(ui.cardForm.context).value
    ELSE context

\* the validation of processCreditCardForm: the message of the first check
\* that fails, "" when all pass
processCreditCardForm_validate_anyMonth(ccNumber, ccMonth, ccYear, ccCVC, ccCountry, currentYear) ==
  IF Falsy(ccNumber) \/ Falsy(ccMonth) \/ Falsy(ccYear) \/ Falsy(ccCVC) \/ Falsy(ccCountry)
    THEN "Please fill in all fields"
  ELSE IF ~DigitsOnly(RemoveWhiteSpace(ccNumber.s), 13, 19)
    THEN "Invalid card number. Must be 13-19 digits."
  ELSE IF ~DigitsOnly(ccMonth.s, 2, 2)
    THEN "Invalid month. Must be 01-12."
  ELSE IF ~DigitsOnly(ccYear.s, 4, 4)
    THEN "Invalid year. Must be current year or later."
  ELSE IF parseInt(ccYear.s) < currentYear
    THEN "Invalid year. Must be current year or later."
  ELSE IF ~DigitsOnly(ccCVC.s, 3, 4)
    THEN "Invalid CVC. Must be 3 or 4 digits."
  ELSE ""
processCreditCardForm_validate(ccNumber, ccMonth, ccYear, ccCVC, ccCountry, currentYear) ==
  IF Falsy(ccNumber) \/ Falsy(ccMonth) \/ Falsy(ccYear) \/ Falsy(ccCVC) \/ Falsy(ccCountry)
    THEN "Please fill in all fields"
  ELSE IF ~DigitsOnly(RemoveWhiteSpace(ccNumber.s), 13, 19)
    THEN "Invalid card number. Must be 13-19 digits."
  ELSE IF ~DigitsOnly(ccMonth.s, 2, 2)
    THEN "Invalid month. Must be 01-12."
  ELSE IF parseInt(ccMonth.s) < 1 \/ parseInt(ccMonth.s) > 12
    THEN "Invalid month. Must be 01-12."
  ELSE IF ~DigitsOnly(ccYear.s, 4, 4)
    THEN "Invalid year. Must be current year or later."
  ELSE IF parseInt(ccYear.s) < currentYear
    THEN "Invalid year. Must be current year or later."
  ELSE IF ~DigitsOnly(ccCVC.s, 3, 4)
    THEN "Invalid CVC. Must be 3 or 4 digits."
  ELSE ""

\* the variables of addCreditCardToAccount
addCreditCardToAccount_variables(adAccountId, fbSocialId, ccNumber, ccYear, ccMonth, ccCVC, ccIso, now) ==
  Obj(<< <<"input", Obj(<<
    <<"credit_card_id", adAccountId>>,
    <<"payment_type", Str("MOR_ADS_INVOICE")>>,
    <<"new_credit_card", Obj(<<
       <<"credit_card_number", Str(ccNumber)>>,
       <<"platform_trust_token", JsNull>>,
       <<"csc", Str(ccCVC)>>,
       <<"expiry_month", Num(parseInt(ccMonth))>>,
       <<"expiry_year", Num(parseInt(ccYear))>>,
       <<"billing_address", Obj(<< <<"country_code", Str(ccIso)>> >>)>> >>)>>,
    <<"actor_id", fbSocialId>>,
    <<"client_mutation_id", Str(now)>> >>)>> >>)

\* processCreditCardForm(context) up to its return or its await.  form is
\* what the user typed into the fields, window the legacy globals
\* selectedacc, socid and privateToken, currentYear and now the clock.
processCreditCardForm(context, form, window, currentYear, now) ==
  LET value(f) == IF ui.cardForm.open THEN Str(form[f]) ELSE JsUndefined
      ccNumber == value("number")
      ccMonth == value("month")
      ccYear == value("year")
      ccCVC == value("cvc")
      ccCountry == value("country")
      ctx == processCreditCardForm_context(context)
      invalid == processCreditCardForm_validate(ccNumber, ccMonth, ccYear, ccCVC,
                                                ccCountry, currentYear)
      accountId == OrElse(Get(ctx, "accountId"), window.selectedacc)
      socialId == OrElse(Get(ctx, "userId"), window.socid)
      accessToken == OrElse(Get(ctx, "accessToken"), window.privateToken)
      message ==
        IF invalid # "" THEN invalid
        ELSE IF Falsy(accountId) \/ Falsy(socialId) \/ Falsy(accessToken)
          THEN "Account information not available. Please reload the page."
        ELSE ""
      args == [context |-> ctx,
               form |-> [number |-> ccNumber, month |-> ccMonth, year |-> ccYear,
                         cvc |-> ccCVC, country |-> ccCountry],
               window |-> window, currentYear |-> currentYear]
  IN  IF message # ""
        THEN /\ tasks' = Append(tasks,
                  [Task("processCreditCardForm", args, "done", 0, 0)
                     EXCEPT !.shown = message, !.result = Resolved(JsUndefined)])
             /\ ui' = showError(message)
             /\ UNCHANGED <<calls, fetchLog, page, ext>>
        ELSE /\ tasks' = Append(tasks,
                  Task("processCreditCardForm", args, "graphql", Len(calls) + 1, 0))
             /\ graphQLRequest("4896364773778784",
                  addCreditCardToAccount_variables(accountId, socialId,
                    RemoveWhiteSpace(ccNumber.s), ccYear.s, ccMonth.s, ccCVC.s,
                    ToUpperCase(ccCountry.s), now),
                  "useFBAAddCreditCardMutation", accessToken, Entries(ctx))
             /\ UNCHANGED ui

\* addCreditCardToAccount has returned: the form is closed and the page
\* reloaded on success, the error is shown otherwise
processCreditCardForm_resume(t) ==
  /\ tasks[t].op = "processCreditCardForm"
  /\ tasks[t].pc = "graphql"
  /\ calls[tasks[t].call].pc = "done"
  /\ IF Outcome(tasks[t].call).kind = "resolved"
       THEN /\ tasks' = [tasks EXCEPT ![t].pc = "done",
                                      ![t].shown = "Credit card added successfully!",
                                      ![t].result = Resolved(JsUndefined)]
            /\ ui' = [ui EXCEPT !.cardForm = NoForm,
                                !.alert = "Credit card added successfully!",
                                !.pc = "reload"]
       ELSE LET message == "Error adding credit card: " \o Outcome(tasks[t].call).message
            IN  /\ tasks' = [tasks EXCEPT ![t].pc = "done", ![t].shown = message,
                                          ![t].result = Resolved(JsUndefined)]
                /\ ui' = showError(message)
  /\ UNCHANGED <<calls, fetchLog, page, ext>>

(***************************************************************************)
(* The form in use: it is opened with any context, filled in, submitted by *)
(* its button (the handler then receives the click event) or through       *)
(* window.FBACCPlugin.CreditCard, and cancelled.                           *)
(***************************************************************************)
ValidCard ==
  [number |-> "4111 1111 1111 1111", month |-> "07", year |-> "2027", cvc |-> "123",
   country |-> "us"]
CardForms ==
  {ValidCard}
    \cup { [ValidCard EXCEPT !.number = n] :
             n \in {"", "411111111111", "4111111111111", "41111111111111111111",
                    "4111-1111-1111-1111"} }
    \cup { [ValidCard EXCEPT !.month = m] : m \in {"00", "12", "13", "7"} }
    \cup { [ValidCard EXCEPT !.year = y] : y \in {"2026", "2025", "20x7"} }
    \cup { [ValidCard EXCEPT !.cvc = c] : c \in {"12", "1234", "12345"} }
    \cup { [ValidCard EXCEPT !.country = ""] }
CurrentYears == {2026}
Times == {"1793743200000"}
ClickEvent == Obj(<< <<"isTrusted", Bool(TRUE)>> >>)
NoGlobals == [selectedacc |-> JsUndefined, socid |-> JsUndefined, privateToken |-> JsUndefined]
LegacyGlobals ==
  [selectedacc |-> Str("222"), socid |-> Str("2000"), privateToken |-> Str(OtherToken)]
Windows == {NoGlobals, LegacyGlobals}

NextCreditCard ==
  \/ \E context \in CardContexts : ui.pc # "reload" /\ showAddCreditCardForm(context)
  \/ hidePopup
  \/ \E context \in {ClickEvent, FullContext}, form \in CardForms, window \in Windows,
        currentYear \in CurrentYears, now \in Times :
       /\ ui.pc # "reload"
       /\ Len(tasks) < MaxSubmits
       /\ processCreditCardForm(context, form, window, currentYear, now)
  \/ \E t \in 1..Len(tasks) : processCreditCardForm_resume(t)
  \/ \E i \in 1..Len(calls), resp \in ConcurrentGraphQLResponses :
       graphQLRequest_resume(i, resp) /\ UNCHANGED <<tasks, ui>>

SpecCreditCard == Init /\ [][NextCreditCard]_vars

(***************************************************************************)
(* The plugin popup (src/src/ui/popup.js).  A popup is absent from the     *)
(* document, present with display none ("hidden") or present with display  *)
(* block ("visible").                                                      *)
(***************************************************************************)
\* destroyPluginPopup(), then a new element with display: none
initPluginPopup(popup) == "hidden"
showPluginPopup(popup) == "visible"
hidePluginPopup_asToggle(popup) == IF popup = "visible" THEN "hidden" ELSE "visible"
hidePluginPopup(popup) == IF popup = "absent" THEN "absent" ELSE "hidden"
togglePluginPopup(popup) ==
  IF popup = "absent" THEN showPluginPopup(initPluginPopup(popup))
  ELSE IF popup = "hidden" THEN showPluginPopup(popup)
  ELSE hidePluginPopup(popup)
mainclose(popup) == hidePluginPopup(popup)

(***************************************************************************)
(* Startup (src/src/main.js, and the revision src/unnamed/part_012 whose   *)
(* PluginState also holds dtsg and userId).                                *)
(***************************************************************************)
VALID_PATHS ==
  {"/adsmanager/manage/campaigns", "/ads/creativehub/home/", "/adsmanager/manage/all",
   "/adsmanager/manage/ads", "/adsmanager/manage/adsets"}
isValidPath(pathname) == pathname \in VALID_PATHS

\* PluginState of src/unnamed/part_012
PluginState_part012 ==
  Obj(PluginState.o \o << <<"dtsg", JsNull>>, <<"userId", JsNull>> >>)

\* initialize() up to the call of Auth.getAccessToken()
initialize(p, pathname) ==
  /\ ui.pc \in {"loaded", "ready"}
  /\ ui.rev \in {"none", "main.js"}
  /\ IF isValidPath(pathname)
       THEN /\ ui' = [ui EXCEPT !.pc = "extracting", !.rev = "main.js", !.inits = @ + 1]
            /\ getAccessToken(p)
       ELSE /\ ui' = [ui EXCEPT !.pc = "ready", !.inits = @ + 1]
            /\ UNCHANGED <<page, ext>>
  /\ UNCHANGED <<calls, fetchLog, tasks>>

initialize_part012(p, pathname) ==
  /\ ui.pc \in {"loaded", "ready"}
  /\ ui.rev \in {"none", "part_012"}
  /\ IF isValidPath(pathname)
       THEN /\ ui' = [ui EXCEPT !.pc = "extracting", !.rev = "part_012", !.inits = @ + 1,
                                !.state = IF ui.rev = "none" THEN PluginState_part012 ELSE @]
            /\ getAccessToken_part003(p)
       ELSE /\ ui' = [ui EXCEPT !.pc = "ready", !.inits = @ + 1]
            /\ UNCHANGED <<page, ext>>
  /\ UNCHANGED <<calls, fetchLog, tasks>>

\* PluginState.accessToken = tokenInfo.token; ... = tokenInfo.isPageAuth
initialize_credentials(state, tokenInfo) ==
  Obj(SpreadSet(SpreadSet(SpreadSet(state.o,
        "accessToken", Get(tokenInfo, "token")),
        "accountId", Get(tokenInfo, "accountId")),
        "isPageAuth", Get(tokenInfo, "isPageAuth")))
\* ... PluginState.dtsg = tokenInfo.dtsg; PluginState.userId = tokenInfo.userId
initialize_part012_credentials(state, tokenInfo) ==
  Obj(SpreadSet(SpreadSet(initialize_credentials(state, tokenInfo).o,
        "dtsg", Get(tokenInfo, "dtsg")),
        "userId", Get(tokenInfo, "userId")))

\* the popup once loadInitialData has its account details
loadInitialData_popup_onSuccess(popup, accountDetails) ==
  IF Get(accountDetails, "success") = Bool(TRUE) THEN showPluginPopup(popup) ELSE popup
loadInitialData_popup(popup, accountDetails) == showPluginPopup(popup)

\* initialize() from the check of the token to its end: the popup is
\* created, the keydown listener added, and loadInitialData runs up to its
\* await, or to its end when there is no account id
initialize_finish(state) ==
  LET accessToken == Get(state, "accessToken")
      accountId == Get(state, "accountId")
      initialized == Obj(SpreadSet(state.o, "initialized", Bool(TRUE)))
  IN  IF Falsy(accessToken)
        THEN /\ ui' = [ui EXCEPT !.pc = "ready", !.state = state]
             /\ UNCHANGED <<calls, fetchLog, page, ext, tasks>>
      ELSE IF Falsy(accountId)
        THEN /\ ui' = [ui EXCEPT !.pc = "ready", !.state = initialized,
                                 !.popup = showPluginPopup(initPluginPopup(@)),
                                 !.info = JsNull, !.listeners = @ + 1]
             /\ tasks' = Append(tasks,
                  [Task("loadInitialData", [accountId |-> ToStr(accountId),
                                            accessToken |-> accessToken], "done", 0, 0)
                     EXCEPT !.result = Resolved(JsUndefined)])
             /\ UNCHANGED <<calls, fetchLog, page, ext>>
      ELSE /\ ui' = [ui EXCEPT !.pc = "ready", !.state = initialized,
                               !.popup = initPluginPopup(@),
                               !.info = JsNull, !.listeners = @ + 1]
           /\ tasks' = tasks \o
                << [Task("getAdAccountDetails",
                         [accountId |-> ToStr(accountId), accessToken |-> accessToken],
                         "basic", Len(calls) + 1, 0) EXCEPT !.basic = Len(calls) + 1],
                   [Task("loadInitialData",
                         [accountId |-> ToStr(accountId), accessToken |-> accessToken],
                         "details", 0, 0) EXCEPT !.awaits = Len(tasks) + 1] >>
           /\ graphAPIRequest("act_" \o ToStr(accountId), "GET",
                              << <<"fields", BASIC_AD_ACCOUNT_FIELDS>> >>, accessToken)

\* Auth.getAccessToken() has returned
initialize_resume ==
  /\ ui.pc = "extracting"
  /\ ui.rev = "main.js"
  /\ ext.pc = "done"
  /\ initialize_finish(initialize_credentials(ui.state, ext.result))

initialize_part012_resume ==
  /\ ui.pc = "extracting"
  /\ ui.rev = "part_012"
  /\ ext.pc = "done"
  /\ initialize_finish(initialize_part012_credentials(ui.state, ext.result))

\* loadInitialData() after its await: displayAccountInfo, showPluginPopup
loadInitialData_resume(l) ==
  /\ tasks[l].op = "loadInitialData"
  /\ tasks[l].pc = "details"
  /\ tasks[tasks[l].awaits].pc = "done"
  /\ LET accountDetails == tasks[tasks[l].awaits].result.value
     IN  ui' = [ui EXCEPT
           !.info = IF Get(accountDetails, "success") = Bool(TRUE) /\ ui.popup # "absent"
                      THEN Get(accountDetails, "data") ELSE @,
           !.popup = loadInitialData_popup(@, accountDetails)]
  /\ tasks' = Finished(l, JsUndefined)
  /\ UNCHANGED <<calls, fetchLog, page, ext>>

\* the keydown listener of setupKeyboardShortcuts
keydown_listener(popup, evt) ==
  LET closed == IF evt.key = "Escape" THEN mainclose(popup) ELSE popup
  IN  IF (evt.ctrlKey \/ evt.metaKey) /\ evt.shiftKey /\ evt.key = "f"
        THEN togglePluginPopup(closed)
        ELSE closed
\* every registered listener runs
RECURSIVE dispatchEvent(_, _, _)
dispatchEvent(popup, evt, listeners) ==
  IF listeners = 0 THEN popup
  ELSE dispatchEvent(keydown_listener(popup, evt), evt, listeners - 1)

\* the user presses a key
keydown(evt) ==
  /\ ui' = [ui EXCEPT
       !.popup = dispatchEvent(@, evt, ui.listeners),
       !.lastKey = [evt |-> evt, listeners |-> ui.listeners, before |-> ui.popup,
                    after |-> dispatchEvent(ui.popup, evt, ui.listeners)]]
  /\ UNCHANGED <<calls, fetchLog, page, ext, tasks>>

\* window.FBACCPlugin.Popup: hide, close and hidePopup; toggle, which does
\* what show and unhide do when the popup is not visible
Popup_hide ==
  /\ ui' = [ui EXCEPT !.popup = hidePluginPopup(@)]
  /\ UNCHANGED <<calls, fetchLog, page, ext, tasks>>
Popup_toggle ==
  /\ ui' = [ui EXCEPT !.popup = togglePluginPopup(@)]
  /\ UNCHANGED <<calls, fetchLog, page, ext, tasks>>

(***************************************************************************)
(* The pages the plugin starts on and the keys the user presses.  The key  *)
(* a browser reports for the F key with Shift held is "F", or "f" when     *)
(* Caps Lock is on or the platform ignores Shift beside Cmd.               *)
(***************************************************************************)
PlainTokenScript == "{\"accessToken\":\"" \o OtherToken \o "\"}"
NoTokenPage == [scripts |-> <<>>, cookie |-> "datr=abc", search |-> "?act=222", dtsgElement |-> JsNull]
AccountPage ==
  [scripts |-> <<TokenScript>>, cookie |-> "datr=abc", search |-> "?act=222",
   dtsgElement |-> JsNull]
TokenOnlyPage ==
  [scripts |-> <<PlainTokenScript>>, cookie |-> "datr=abc; c_user=3000; i_user=5",
   search |-> "", dtsgElement |-> Obj(<< <<"value", Str("AQdom")>> >>)]
PluginPages == {NoTokenPage, AccountPage, TokenOnlyPage}
Pathnames == {"/adsmanager/manage/campaigns", "/"}
KeyEvents ==
  {KeyboardEvent("Escape", FALSE, FALSE, FALSE),
   KeyboardEvent("F", TRUE, FALSE, TRUE),
   KeyboardEvent("f", FALSE, TRUE, TRUE),
   KeyboardEvent("f", FALSE, FALSE, FALSE)}
StartupResponses ==
  {Response(HttpOK, JSONstringify(BasicAccount)),
   Response(HttpOK, JSONstringify(SensitiveAccount)),
   Response(HttpOK, "null"),
   Response(HttpBadRequest, JSONstringify(OAuthBody)),
   NetworkError}
ReinitResponses == {Response(HttpOK, JSONstringify(BasicAccount)), NetworkError}

\* the steps from initialize() to the end of loadInitialData()
Extraction ==
  \/ getAccessToken_scan /\ UNCHANGED <<tasks, ui>>
  \/ getAccessToken_return /\ UNCHANGED <<tasks, ui>>
  \/ getAccessToken_part003_scan /\ UNCHANGED <<tasks, ui>>
  \/ getAccessToken_part003_fallbacks /\ UNCHANGED <<tasks, ui>>
  \/ getAccessToken_part003_return /\ UNCHANGED <<tasks, ui>>
  \/ initialize_resume
  \/ initialize_part012_resume
Arrival(responses) ==
  \E i \in 1..Len(calls), resp \in responses :
    graphAPIRequest_resume(i, resp) /\ UNCHANGED <<tasks, ui>>
Loading ==
  \/ \E t \in 1..Len(tasks) : getAdAccountDetails_basic(t)
  \/ \E t \in 1..Len(tasks) : getAdAccountDetails_sensitive(t)
  \/ \E l \in 1..Len(tasks) : loadInitialData_resume(l)

(***************************************************************************)
(* The plugin on a page: initialize runs once when the document is ready,  *)
(* then the user presses keys and the page calls window.FBACCPlugin while  *)
(* the responses arrive.                                                   *)
(***************************************************************************)
NextPlugin ==
  \/ \E p \in PluginPages, pathname \in Pathnames : ui.pc = "loaded" /\ initialize(p, pathname)
  \/ \E p \in PluginPages, pathname \in Pathnames :
       ui.pc = "loaded" /\ initialize_part012(p, pathname)
  \/ Extraction
  \/ Arrival(StartupResponses)
  \/ Loading
  \/ \E evt \in KeyEvents : ui.pc # "extracting" /\ keydown(evt)
  \/ ui.pc # "extracting" /\ Popup_hide
  \/ ui.pc # "extracting" /\ Popup_toggle
  \/ ui.pc # "extracting" /\ showAddCreditCardForm(Obj(<<>>))

SpecPlugin == Init /\ [][NextPlugin]_vars

(***************************************************************************)
(* Startup alone: initialize runs once, when the document is ready.  Every *)
(* request that was sent is answered and every continuation that waits for *)
(* an answer runs once the answer is there.                                *)
(***************************************************************************)
NextStartup ==
  \/ \E p \in PluginPages, pathname \in Pathnames : ui.pc = "loaded" /\ initialize(p, pathname)
  \/ \E p \in PluginPages, pathname \in Pathnames :
       ui.pc = "loaded" /\ initialize_part012(p, pathname)
  \/ Extraction
  \/ Arrival(StartupResponses)
  \/ Loading

SpecStartup ==
  /\ Init
  /\ [][NextStartup]_vars
  /\ WF_vars(Arrival(StartupResponses))
  /\ WF_vars(Loading)

(***************************************************************************)
(* initialize called again by an importer of the module, on the page as it *)
(* is then.                                                                *)
(***************************************************************************)
NextReinit ==
  \/ \E p \in PluginPages, pathname \in Pathnames :
       ui.inits < MaxInits /\ initialize(p, pathname)
  \/ \E p \in PluginPages, pathname \in Pathnames :
       ui.inits < MaxInits /\ initialize_part012(p, pathname)
  \/ Extraction
  \/ Arrival(ReinitResponses)
  \/ Loading

SpecReinit == Init /\ [][NextReinit]_vars

(***************************************************************************)
(* Properties of the Dispatcher.                                           *)
(***************************************************************************)
Ids == 1..Len(calls)
FetchesOf(i) == SelectSeq(fetchLog, LAMBDA r : r.call = i)
Token(i) == calls[i].args.accessToken
EmptyToken(v) == v \in {JsNull, JsUndefined, Str("")}
Done(i) == calls[i].pc = "done"
GotResponse(i) == Done(i) /\ calls[i].response.kind = "response"
\* the body of the response of call i is the JSON text of some value
BodyIsJSON(i) == \E v \in JSONUniverse : JSONstringify(v) = calls[i].response.body
BodyValue(i) == CHOOSE v \in JSONUniverse : JSONstringify(v) = calls[i].response.body
HasError(v) == v.t = "obj" /\ HasKey(v.o, "error")

\* C1: a Dispatcher operation called with a null, undefined or empty token
\* fails with the missing-credential error and hands no request to fetch.
C1_MissingCredential ==
  \A i \in Ids :
    EmptyToken(Token(i)) =>
      /\ Done(i)
      /\ calls[i].result = Rejected("Error", MissingTokenMessage)
      /\ Len(FetchesOf(i)) = 0

C1_Witness ==
  \E i \in Ids :
    /\ calls[i].op = "batchGraphAPIRequests"
    /\ Token(i) = Str("")
    /\ calls[i].result.kind = "rejected"
    /\ Len(calls[i].args.requests) = MaxBatch

\* C2: a Dispatcher operation called with a non-empty token that does not
\* have the bearer-token shape rejects and sends no HTTP request.
C2_RejectsMalformedToken ==
  \A i \in Ids :
    (~EmptyToken(Token(i)) /\ ~validateToken(Token(i))) =>
      /\ calls[i].result.kind = "rejected"
      /\ Len(FetchesOf(i)) = 0

GraphQLErrorsListed(i) ==
  /\ calls[i].op = "graphQLRequest"
  /\ BodyIsJSON(i)
  /\ BodyValue(i).t = "obj"
  /\ HasKey(BodyValue(i).o, "errors")
  /\ Lookup(BodyValue(i).o, "errors").t = "arr"
  /\ Len(Lookup(BodyValue(i).o, "errors").a) > 0
C4_ExactlyOneRequest ==
  \A i \in Ids : ~EmptyToken(Token(i)) => Len(FetchesOf(i)) = 1

C4_Witness ==
  \E i \in Ids :
    /\ GotResponse(i)
    /\ ~Ok(calls[i].response)
    /\ calls[i].result.kind = "rejected"
    /\ Len(FetchesOf(i)) = 1

\* C5: a simple call whose response is 2xx with a decoded body that has a
\* top-level `error` field yields a failure, not a success carrying the body.
C5_LogicalErrorIsFailure ==
  \A i \in Ids :
    (calls[i].op = "graphAPIRequest" /\ GotResponse(i) /\ Ok(calls[i].response)
       /\ BodyIsJSON(i) /\ HasError(BodyValue(i))) =>
      calls[i].result.kind = "rejected"

\* the message, code and type of the error object of a decoded body
ErrorPart(v, k) == ToStr(Lookup(Lookup(v.o, "error").o, k))
HasErrorParts(v) ==
  /\ HasError(v)
  /\ Lookup(v.o, "error").t = "obj"
  /\ \A k \in {"message", "code", "type"} : HasKey(Lookup(v.o, "error").o, k)
PartOr(v, k, default) ==
  IF /\ HasError(v)
     /\ Lookup(v.o, "error").t = "obj"
     /\ HasKey(Lookup(v.o, "error").o, k)
     /\ Lookup(Lookup(v.o, "error").o, k) \notin {Str(""), Num(0), Bool(FALSE), JsNull, JsUndefined}
    THEN ErrorPart(v, k)
    ELSE default

\* C6 as stated: a non-2xx response with body {error: {message, code, type}}
\* fails with '<message> (Code: <code>, Type: <type>)' for every message,
\* code and type.
C6_MessageForEveryError ==
  \A i \in Ids :
    (calls[i].op = "graphAPIRequest" /\ GotResponse(i) /\ ~Ok(calls[i].response)
       /\ BodyIsJSON(i) /\ HasErrorParts(BodyValue(i))) =>
      /\ calls[i].result.kind = "rejected"
      /\ calls[i].result.message =
           ErrorPart(BodyValue(i), "message") \o " (Code: "
             \o ErrorPart(BodyValue(i), "code") \o ", Type: "
             \o ErrorPart(BodyValue(i), "type") \o ")"

\* C6 amended: a non-2xx response with a JSON object body fails with
\* '<message> (Code: <code>, Type: <type>)' where each part is the error's
\* field when that field is truthy (present and not empty, zero, null or
\* false), and otherwise 'API request failed', 'UNKNOWN' and 'Unknown'.
C6_MessageWithDefaults ==
  \A i \in Ids :
    (calls[i].op = "graphAPIRequest" /\ GotResponse(i) /\ ~Ok(calls[i].response)
       /\ BodyIsJSON(i) /\ BodyValue(i).t = "obj") =>
      /\ calls[i].result.kind = "rejected"
      /\ calls[i].result.message =
           PartOr(BodyValue(i), "message", "API request failed") \o " (Code: "
             \o PartOr(BodyValue(i), "code", "UNKNOWN") \o ", Type: "
             \o PartOr(BodyValue(i), "type", "Unknown") \o ")"

C6_Witness ==
  \E i \in Ids :
    /\ calls[i].op = "graphAPIRequest"
    /\ calls[i].response = Response(HttpBadRequest, JSONstringify(OAuthBody))
    /\ calls[i].result.message = "Invalid OAuth (Code: 190, Type: OAuthException)"

\* C7: a simple call whose response is non-2xx with a body that is not JSON
\* fails reporting the raw HTTP status and status text, not a parse error.
C7_RawStatusReported ==
  \A i \in Ids :
    (calls[i].op = "graphAPIRequest" /\ GotResponse(i) /\ ~Ok(calls[i].response)
       /\ ~BodyIsJSON(i)) =>
      /\ calls[i].result.kind = "rejected"
      /\ calls[i].result.name # "SyntaxError"
      /\ Includes(calls[i].result.message, ToString(calls[i].response.status))
      /\ Includes(calls[i].result.message, calls[i].response.statusText)

IsSimple(r) == calls[r.call].op = "graphAPIRequest"
OtherParams(r) ==
  { calls[r.call].args.params[k] : k \in
      { j \in 1..Len(calls[r.call].args.params) :
          calls[r.call].args.params[j][1] # "access_token" } }
TokenInQuery(r) == HasField(r.url.search, "access_token", Token(r.call).s)
ParamsInQuery(r) ==
  /\ \A p \in OtherParams(r) : HasField(r.url.search, p[1], p[2])
  /\ ~r.hasBody
  /\ r.body = <<>>
ParamsInBody(r) ==
  /\ \A p \in OtherParams(r) : ~HasKey(r.url.search, p[1]) /\ HasField(r.body, p[1], p[2])
  /\ r.hasBody
  /\ \E h \in 1..Len(r.headers) : r.headers[h] = FormContentType

\* C9 as stated: the token is always in the query string; GET carries every
\* other param in the query string and no body; POST, PUT, PATCH and DELETE
\* carry the other params in a form-encoded body and not in the query string.
C9_SplitForAllMutatingMethods ==
  \A k \in 1..Len(fetchLog) :
    IsSimple(fetchLog[k]) =>
      /\ TokenInQuery(fetchLog[k])
      /\ fetchLog[k].method = "GET" => ParamsInQuery(fetchLog[k])
      /\ fetchLog[k].method \in {"POST", "PUT", "PATCH", "DELETE"} =>
           ParamsInBody(fetchLog[k])

\* C9 amended: the token is always in the query string; POST, PUT and PATCH
\* carry the other params in a form-encoded body and not in the query
\* string; GET and DELETE carry every other param in the query string and
\* have no body.
C9_SplitForBodyMethods ==
  \A k \in 1..Len(fetchLog) :
    IsSimple(fetchLog[k]) =>
      /\ TokenInQuery(fetchLog[k])
      /\ fetchLog[k].method = calls[fetchLog[k].call].args.method
      /\ fetchLog[k].method \in {"GET", "DELETE"} => ParamsInQuery(fetchLog[k])
      /\ fetchLog[k].method \in {"POST", "PUT", "PATCH"} => ParamsInBody(fetchLog[k])

C9_Witness ==
  \E k \in 1..Len(fetchLog) :
    /\ IsSimple(fetchLog[k])
    /\ fetchLog[k].method = "PATCH"
    /\ fetchLog[k].url.search = << <<"access_token", GoodToken>> >>
    /\ fetchLog[k].body = << <<"access_token", OtherToken>>, <<"limit", "5">> >>

\* the JSON text of each variables object, written out
VariablesText(v) ==
  IF v = AppealVariables
    THEN "{\"input\":{\"client_mutation_id\":\"1\",\"ad_account_id\":\"123\"}}"
    ELSE "{\"count\":2}"

\* C10: every structured mutation call made with a usable token sends one
\* form-encoded POST to the GraphQL endpoint whose body has the fields
\* access_token (the token), doc_id (the document id), variables (the JSON
\* text of the variables object), fb_api_req_friendly_name (the friendly
\* name) and fb_api_caller_class (RelayModern).
C10_GraphQLBody ==
  /\ \A i \in Ids :
       (calls[i].op = "graphQLRequest" /\ ~EmptyToken(Token(i))) =>
         Len(FetchesOf(i)) = 1
  /\ \A k \in 1..Len(fetchLog) :
       LET r == fetchLog[k]
           a == calls[r.call].args
       IN  calls[r.call].op = "graphQLRequest" =>
             /\ r.method = "POST"
             /\ r.url = [origin |-> "https://www.facebook.com/api/graphql/", search |-> <<>>]
             /\ r.headers = <<FormContentType>>
             /\ r.hasBody
             /\ ParamGet(r.body, "access_token") = a.accessToken.s
             /\ HasField(r.body, "doc_id", a.docId)
             /\ HasField(r.body, "variables", VariablesText(a.variables))
             /\ HasField(r.body, "fb_api_req_friendly_name", a.friendlyName)
             /\ HasField(r.body, "fb_api_caller_class", "RelayModern")

C10_Witness ==
  \E k \in 1..Len(fetchLog) :
    /\ calls[fetchLog[k].call].op = "graphQLRequest"
    /\ calls[fetchLog[k].call].args.variables = AppealVariables
    /\ Len(calls[fetchLog[k].call].args.extraParams) > 0
    /\ HasField(fetchLog[k].body, "variables",
                "{\"input\":{\"client_mutation_id\":\"1\",\"ad_account_id\":\"123\"}}")
    /\ HasField(fetchLog[k].body, "doc_id", "5197966936890203")

\* the requests of structured mutation calls
IsGraphQL(r) == calls[r.call].op = "graphQLRequest"
\* the value of the last field called name
LastField(ps, name) ==
  ps[CHOOSE k \in 1..Len(ps) :
       ps[k][1] = name /\ \A j \in (k+1)..Len(ps) : ps[j][1] # name][2]

\* C11: in a structured mutation call, a context carrying an anti-forgery
\* token puts the field fb_dtsg equal to it in the body, a context carrying
\* a user id puts the fields av and __user equal to it in the body, and an
\* absent context value leaves the corresponding fields out.
C11_ContextFields ==
  \A k \in 1..Len(fetchLog) :
    LET r == fetchLog[k]
        context == calls[r.call].args.extraParams
    IN  IsGraphQL(r) =>
          /\ HasKey(context, "dtsg") =>
               HasField(r.body, "fb_dtsg", Lookup(context, "dtsg"))
          /\ HasKey(context, "userId") =>
               /\ HasField(r.body, "av", Lookup(context, "userId"))
               /\ HasField(r.body, "__user", Lookup(context, "userId"))
          /\ ~HasKey(context, "dtsg") => ~HasKey(r.body, "fb_dtsg")
          /\ ~HasKey(context, "userId") =>
               ~HasKey(r.body, "av") /\ ~HasKey(r.body, "__user")

\* v without the members whose value is undefined, at every depth
RECURSIVE DropUndefined(_)
DropUndefined(v) ==
  IF v.t = "obj"
    THEN LET kept == SelectSeq(v.o, LAMBDA p : p[2].t # "undefined")
         IN  Obj([k \in 1..Len(kept) |-> <<kept[k][1], DropUndefined(kept[k][2])>>])
    ELSE v

BatchArrayReceived(i) ==
  /\ calls[i].op = "batchGraphAPIRequests"
  /\ GotResponse(i)
  /\ Ok(calls[i].response)
  /\ BodyIsJSON(i)
  /\ BodyValue(i).t = "arr"
\* entry j of the response array of call i, its status code and body text
Entry(i, j) == BodyValue(i).a[j]
EntryCode(i, j) == Lookup(Entry(i, j).o, "code")
EntryText(i, j) == Lookup(Entry(i, j).o, "body").s
EntryIsJSON(i, j) == \E v \in JSONUniverse : JSONstringify(v) = EntryText(i, j)
EntryValue(i, j) == CHOOSE v \in JSONUniverse : JSONstringify(v) = EntryText(i, j)
\* the result a response entry determines by its own status and body
OwnResult(i, j) ==
  IF EntryCode(i, j) = Num(200)
    THEN Obj(<< <<"success", Bool(TRUE)>>, <<"data", EntryValue(i, j)>> >>)
    ELSE Obj(<< <<"success", Bool(FALSE)>>, <<"error", EntryValue(i, j)>> >>)

\* C13: a batched call returns a list as long as the response array and in
\* its order; entry j is success:true with the parsed body of response entry
\* j exactly when that entry's status code is 200, and success:false
\* otherwise, whatever the other entries are.
C13_BatchMapping ==
  \A i \in Ids :
    BatchArrayReceived(i) =>
      /\ calls[i].result.kind = "resolved"
      /\ calls[i].result.value.t = "arr"
      /\ Len(calls[i].result.value.a) = Len(BodyValue(i).a)
      /\ \A j \in 1..Len(BodyValue(i).a) :
           /\ Lookup(calls[i].result.value.a[j].o, "success")
                = Bool(EntryCode(i, j) = Num(200))
           /\ (EntryCode(i, j) = Num(200) /\ EntryIsJSON(i, j)) =>
                Lookup(calls[i].result.value.a[j].o, "data") = EntryValue(i, j)

\* C14: in a batched call an entry whose body is not valid JSON gives a
\* failure result for that entry only; the call still returns and every
\* other entry has the result its own status and body determine.
C14_EntryFailureIsolated ==
  \A i \in Ids :
    BatchArrayReceived(i) =>
      /\ calls[i].result.kind = "resolved"
      /\ Len(calls[i].result.value.a) = Len(BodyValue(i).a)
      /\ \A j \in 1..Len(BodyValue(i).a) :
           IF EntryIsJSON(i, j)
             THEN calls[i].result.value.a[j] = OwnResult(i, j)
             ELSE Lookup(calls[i].result.value.a[j].o, "success") = Bool(FALSE)

(***************************************************************************)
(* Properties of the Extractor.                                            *)
(***************************************************************************)
Returned == ext.pc = "done"
\* a member of the returned object, undefined when the object lacks it
Field(k) == Get(ext.result, k)
KnownTokens == {GoodToken, OtherToken, UrlSafeToken}
\* the bearer-token-shaped strings of a block: a quote, then the token
ShapedTokens(html) == {tk \in KnownTokens : Includes(html, "\"" \o tk)}
\* the tokens of a block that stand between two quotes
QuotedTokens(html) == {tk \in KnownTokens : Includes(html, "\"" \o tk \o "\"")}
\* the blocks of the page that satisfy Has(_)
BlocksWith(Has(_)) == {j \in 1..Len(page.scripts) : Has(page.scripts[j])}
HasQuotedToken(html) == QuotedTokens(html) # {}
HasShapedToken(html) == ShapedTokens(html) # {}
Last(S) == CHOOSE x \in S : \A y \in S : y <= x

\* C15: when several script blocks each contain a bearer-token-shaped
\* string, the returned token is the one matched in the last such block in
\* document order, not the one of the first block.
C15_LastTokenWins ==
  (Returned /\ Cardinality(BlocksWith(HasQuotedToken)) >= 2) =>
    /\ Field("token").t = "str"
    /\ Field("token").s \in QuotedTokens(page.scripts[Last(BlocksWith(HasQuotedToken))])

\* the value of the act parameter of the page URL, null when it is absent
ActParameter == getURLParameter(page.search, "act")
\* the block assigns the account id v: selected_account_id:"v", in any case
ScrapedFrom(html, v) == Includes(ToLower(html), "selected_account_id:\"" \o v \o "\"")
ScrapedIds == {"111", "333"}

C17_ExactToken ==
  (/\ Returned
   /\ Cardinality(BlocksWith(HasShapedToken)) = 1
   /\ \A j \in BlocksWith(HasShapedToken) : Cardinality(ShapedTokens(page.scripts[j])) = 1)
    => \A j \in BlocksWith(HasShapedToken) :
         \A tk \in ShapedTokens(page.scripts[j]) : Field("token") = Str(tk)

\* a step that scans one script block
ScanStep == ext.pc = "scan" /\ ext'.pc = "scan" /\ ext'.i = ext.i + 1
\* the block gives the labeled key the value v
Labeled(html, label, v) == Includes(html, "\"" \o label \o "\":\"" \o v \o "\"")

\* C18: a scan step changes the form token only if the block it scans
\* contains 'DTSGInitialData', and the user id only if the block contains
\* 'CurrentUserInitialData'; the value taken is the one the labeled key has
\* in that block, and a block that has the key but not the marker leaves
\* the value as it was.
C18_MarkerGuard ==
  [][ScanStep =>
       /\ ext'.dtsg # ext.dtsg =>
            /\ Includes(Html, "DTSGInitialData")
            /\ Labeled(Html, "token", ext'.dtsg.s)
       /\ ext'.userId # ext.userId =>
            /\ Includes(Html, "CurrentUserInitialData")
            /\ Labeled(Html, "USER_ID", ext'.userId.s)]_vars

C18_Witness ==
  /\ ext.rev = "part_003"
  /\ ext.pc = "scan"
  /\ ext.i = 1
  /\ page.scripts[1] = CurrentUserScript
  /\ Labeled(page.scripts[1], "token", "AQother")
  /\ ext.dtsg = Str("")
  /\ ext.userId = Str("1000")

\* the values only the fallbacks can supply
HiddenInputValue == Get(page.dtsgElement, "value")
CookieUserId == Str("3000")

\* C19: the fallbacks run only when every script block has been scanned;
\* until then no value comes from the hidden input or from the cookie; the
\* hidden input supplies the form token only if the scan left it empty, the
\* cookie supplies the user id only if the scan left it empty, and a value
\* found in the scripts is returned unchanged.
C19_FallbacksAfterScan ==
  [][/\ ext.pc = "scan" =>
          /\ ext.dtsg \in {Str(""), Str("AQscript")}
          /\ ext.userId \in {Str(""), Str("1000")}
     /\ (ext.pc = "scan" /\ ext'.pc = "fallbacks") =>
          /\ ext.i = Len(page.scripts)
          /\ ext.dtsg # Str("") => ext'.dtsg = ext.dtsg
          /\ ext.userId # Str("") => ext'.userId = ext.userId
          /\ ext'.dtsg # ext.dtsg => ext'.dtsg = HiddenInputValue
          /\ ext'.userId # ext.userId => ext'.userId = CookieUserId
     /\ (ext.pc = "fallbacks" /\ ext'.pc = "done") =>
          /\ Get(ext'.result, "dtsg") = ext.dtsg
          /\ Get(ext'.result, "userId") = ext.userId]_vars

C19_Witness ==
  /\ Returned
  /\ ext.rev = "part_003"
  /\ page.dtsgElement = Obj(<< <<"value", Str("AQdom")>> >>)
  /\ page.cookie = "datr=abc; c_user=3000; i_user=5"
  /\ page.scripts = <<DTSGScript, CurrentUserScript>>
  /\ Field("dtsg") = Str("AQscript")
  /\ Field("userId") = Str("1000")

\* C20: the returned value has the members token, userId, dtsg (the form
\* token) and accountId, and each of them is a string.
C20_AllFieldsAreStrings ==
  Returned =>
    \A k \in {"token", "userId", "dtsg", "accountId"} :
      /\ ext.result.t = "obj"
      /\ HasKey(ext.result.o, k)
      /\ Field(k).t = "str"

\* C26: in a simple GET call the URL has one access_token parameter and it
\* is the token supplied to the operation, also when params has an
\* access_token key of its own.
C26_SuppliedTokenWins ==
  \A k \in 1..Len(fetchLog) :
    (IsSimple(fetchLog[k]) /\ fetchLog[k].method = "GET") =>
      /\ \E j \in 1..Len(fetchLog[k].url.search) :
           fetchLog[k].url.search[j][1] = "access_token"
      /\ \A j \in 1..Len(fetchLog[k].url.search) :
           fetchLog[k].url.search[j][1] = "access_token" =>
             fetchLog[k].url.search[j][2] = Token(fetchLog[k].call).s

C26_Witness ==
  \E k \in 1..Len(fetchLog) :
    /\ IsSimple(fetchLog[k])
    /\ fetchLog[k].method = "GET"
    /\ HasField(calls[fetchLog[k].call].args.params, "access_token", OtherToken)
    /\ Token(fetchLog[k].call).s # OtherToken
    /\ HasField(fetchLog[k].url.search, "access_token", Token(fetchLog[k].call).s)
    /\ ~HasField(fetchLog[k].url.search, "access_token", OtherToken)

\* the result the response of a settled call determines
ResultOf(c) ==
  CASE c.op = "graphAPIRequest" -> graphAPIRequest_result(c.response)
    [] c.op = "graphQLRequest" -> graphQLRequest_result(c.response)
    [] c.op = "batchGraphAPIRequests" -> batchGraphAPIRequests_result(c.response)

C23_OnlyDispatcherRequests ==
  \A j \in 1..Len(fetchLog) :
    /\ fetchLog[j].call \in 1..Len(calls)
    /\ calls[fetchLog[j].call].op \in
         {"graphAPIRequest", "graphQLRequest", "batchGraphAPIRequests"}

DetailsDone(t) == tasks[t].op = "getAdAccountDetails" /\ tasks[t].pc = "done"
Success(t) == Get(tasks[t].result.value, "success")
Data(t) == Get(tasks[t].result.value, "data")
BasicOutcome(t) == Outcome(tasks[t].basic)
SensitiveAsked(t) == tasks[t].call # tasks[t].basic
SensitiveOutcome(t) == Outcome(tasks[t].call)
Fields(v) == IF v.t = "obj" THEN {v.o[k][1] : k \in 1..Len(v.o)} ELSE {}

\* C27: getAdAccountDetails always resolves; success is true exactly when
\* the basic request resolved; a failed sensitive request leaves the basic
\* fields as the data; when both resolve the data has every basic and every
\* sensitive field; a failed basic request gives success false.
C27_SensitiveFailureTolerated ==
  \A t \in 1..Len(tasks) :
    DetailsDone(t) =>
      /\ tasks[t].result.kind = "resolved"
      /\ Success(t) = Bool(BasicOutcome(t).kind = "resolved")
      /\ BasicOutcome(t).kind = "rejected" =>
           /\ ~SensitiveAsked(t)
           /\ Get(tasks[t].result.value, "message") = Str(BasicOutcome(t).message)
      /\ BasicOutcome(t).kind = "resolved" =>
           /\ SensitiveAsked(t)
           /\ SensitiveOutcome(t).kind = "rejected" =>
                Data(t) = Obj(ObjectSpread(BasicOutcome(t).value))
           /\ SensitiveOutcome(t).kind = "resolved" =>
                /\ Fields(Data(t)) = Fields(BasicOutcome(t).value)
                                       \cup Fields(SensitiveOutcome(t).value)
                /\ \A k \in Fields(SensitiveOutcome(t).value) :
                     Get(Data(t), k) = Get(SensitiveOutcome(t).value, k)
                /\ \A k \in Fields(BasicOutcome(t).value)
                              \ Fields(SensitiveOutcome(t).value) :
                     Get(Data(t), k) = Get(BasicOutcome(t).value, k)
C27_Witness ==
  \E t \in 1..Len(tasks) :
    /\ DetailsDone(t)
    /\ BasicOutcome(t) = Resolved(BasicAccount)
    /\ SensitiveAsked(t)
    /\ SensitiveOutcome(t).kind = "rejected"
    /\ Success(t) = Bool(TRUE)
C27_BothWitness ==
  \E t \in 1..Len(tasks) :
    /\ DetailsDone(t)
    /\ BasicOutcome(t) = Resolved(BasicAccount)
    /\ SensitiveAsked(t)
    /\ SensitiveOutcome(t) = Resolved(SensitiveAccount)
    /\ Get(Data(t), "name") = Str("Shop")
    /\ Get(Data(t), "balance") = Str("0")

(***************************************************************************)
(* The credit card form                                                    *)
(***************************************************************************)
Submitted(t) == tasks[t].op = "processCreditCardForm"
FormFields == {"number", "month", "year", "cvc", "country"}
AllDigits(s) == \A k \in 1..Len(s) : Char(s, k) \in Digits
TwoDigitMonths == {"01", "02", "03", "04", "05", "06", "07", "08", "09", "10", "11", "12"}
Available(v, global) == ~Falsy(v) \/ ~Falsy(global)
\* the conditions the claim lists, on the input of submission t
ValidSubmission(t) ==
  LET a == tasks[t].args
  IN  /\ \A f \in FormFields : a.form[f].t = "str" /\ a.form[f].s # ""
      /\ AllDigits(RemoveWhiteSpace(a.form.number.s))
      /\ Len(RemoveWhiteSpace(a.form.number.s)) \in 13..19
      /\ a.form.month.s \in TwoDigitMonths
      /\ Len(a.form.year.s) = 4 /\ AllDigits(a.form.year.s)
      /\ parseInt(a.form.year.s) >= a.currentYear
      /\ Len(a.form.cvc.s) \in {3, 4} /\ AllDigits(a.form.cvc.s)
      /\ Available(Get(a.context, "accountId"), a.window.selectedacc)
      /\ Available(Get(a.context, "userId"), a.window.socid)
      /\ Available(Get(a.context, "accessToken"), a.window.privateToken)
RequestOf(t) == {j \in 1..Len(fetchLog) : tasks[t].call # 0 /\ fetchLog[j].call = tasks[t].call}

\* C28: a request is sent for a submission only if the fields are all
\* non-empty, the number is 13 to 19 digits once whitespace is removed, the
\* month is 01..12, the year four digits and not in the past, the CVC 3 or 4
\* digits, and account id, user id and token are available; any other
\* submission sends nothing and shows an error message.
C28_RequestOnlyIfValid ==
  /\ \A j \in 1..Len(fetchLog) :
       \E t \in 1..Len(tasks) : Submitted(t) /\ j \in RequestOf(t) /\ ValidSubmission(t)
  /\ \A t \in 1..Len(tasks) :
       Submitted(t) /\ ~ValidSubmission(t) =>
         /\ RequestOf(t) = {}
         /\ tasks[t].pc = "done"
         /\ tasks[t].shown # ""
         /\ tasks[t].shown # "Credit card added successfully!"
C28_Witness ==
  \E t \in 1..Len(tasks) :
    /\ Submitted(t)
    /\ ValidSubmission(t)
    /\ RequestOf(t) # {}
    /\ tasks[t].args.form.number = Str("4111 1111 1111 1111")
C28_RejectedWitness ==
  \E t \in 1..Len(tasks) :
    /\ Submitted(t)
    /\ tasks[t].args.form.month = Str("13")
    /\ RequestOf(t) = {}
    /\ ui.cardForm.error = "Invalid month. Must be 01-12."
C28_NoAccountWitness ==
  \E t \in 1..Len(tasks) :
    /\ Submitted(t)
    /\ tasks[t].args.form.number = Str("4111 1111 1111 1111")
    /\ tasks[t].shown = "Account information not available. Please reload the page."

(***************************************************************************)
(* Startup, popup and shortcuts                                            *)
(***************************************************************************)
Initialized == Get(ui.state, "initialized") = Bool(TRUE)
\* initialize has run to its end on a valid path and found no token
StartedWithoutToken ==
  ui.rev # "none" /\ ui.pc = "ready" /\ Falsy(Get(ui.state, "accessToken"))

\* C21: once startup has extracted an empty token there is no popup, no
\* keydown listener, no card form, no request and initialized is false,
\* whatever the user and the page do afterwards.
C21_NoControlsWithoutToken ==
  StartedWithoutToken =>
    /\ ui.popup = "absent"
    /\ ui.listeners = 0
    /\ ~ui.cardForm.open
    /\ calls = <<>>
    /\ fetchLog = <<>>
    /\ ~Initialized

Credentials(state) ==
  <<Get(state, "accessToken"), Get(state, "accountId"), Get(state, "isPageAuth"),
    Get(state, "dtsg"), Get(state, "userId")>>
Captured == Get(ui.state, "accessToken") # JsNull

\* C22: once the credentials have been written, no step changes any of
\* accessToken, accountId, isPageAuth, dtsg and userId.
C22_WrittenOnce == [][Captured => Credentials(ui.state') = Credentials(ui.state)]_vars

\* Ctrl+Shift+F or Cmd+Shift+F, whichever case the key is reported in
Chord(evt) == (evt.ctrlKey \/ evt.metaKey) /\ evt.shiftKey /\ evt.key \in {"f", "F"}
Toggled(popup) == IF popup = "visible" THEN "hidden" ELSE "visible"

\* C24: after a successful initialization a press of the shortcut turns a
\* visible popup hidden and a hidden or absent popup visible.
C24_ShortcutToggles ==
  (Chord(ui.lastKey.evt) /\ ui.lastKey.listeners >= 1) =>
    ui.lastKey.after = Toggled(ui.lastKey.before)

\* C25: after a successful initialization a press of ESC leaves the popup
\* not visible, and leaves a popup that was not visible as it was.
C25_EscapeHides ==
  (ui.lastKey.evt.key = "Escape" /\ ui.lastKey.listeners >= 1) =>
    /\ ui.lastKey.after # "visible"
    /\ ui.lastKey.before # "visible" => ui.lastKey.after = ui.lastKey.before
C25_Witness ==
  /\ ui.lastKey.evt.key = "Escape"
  /\ ui.lastKey.listeners >= 1
  /\ ui.lastKey.before = "visible"
  /\ ui.lastKey.after = "hidden"
  /\ ui.popup = "hidden"
C25_HiddenWitness ==
  /\ ui.lastKey.evt.key = "Escape"
  /\ ui.lastKey.listeners >= 1
  /\ ui.lastKey.before = "hidden"
  /\ ui.lastKey.after = "hidden"

LoadPending == \E l \in 1..Len(tasks) : tasks[l].op = "loadInitialData" /\ tasks[l].pc # "done"
LoadDone == \E l \in 1..Len(tasks) : tasks[l].op = "loadInitialData" /\ tasks[l].pc = "done"

C29_PendingWitness ==
  /\ Initialized
  /\ LoadPending
  /\ ~LoadDone
  /\ ui.popup = "hidden"
  /\ \E i \in 1..Len(calls) : calls[i].pc = "fetch"
====
